---- MODULE Spec2Model ----
(***************************************************************************)
(* mergebro: the Director's check pipeline, its steps, the merger and the  *)
(* caller's poll loop, as a state machine.                                 *)
(*                                                                         *)
(* One poll is: main's loop calls Director::run, which fetches a pull      *)
(* request snapshot (the context), executes the steps in order and, when   *)
(* all of them pass, calls the merger.  Every await on a collaborator      *)
(* (GitHub, CircleCI) is a nondeterministic answer drawn from a small set. *)
(***************************************************************************)
EXTENDS Integers, Sequences, FiniteSets, TLC

VARIABLES
    steps,                  \* Director.steps: the pipeline, a sequence of step names
    merger,                 \* Director.merger: [kind, merge_methods]
    reviews_config,         \* CheckReviewsStep.reviews.approvals
    status_failures_config, \* CheckBuildFailed.status_failures_config: name -> max_failures
    workflow_runners,       \* CheckBuildFailed.workflow_runners
    pc,                     \* position of main / Director::run
    idx,                    \* position of run()'s `for step in &mut self.steps`
    context,                \* run()'s snapshot: <<>> or <<pull request>>
    result,                 \* what the last run() returned
    executed,               \* the steps executed by the current run, with their outcomes
    requests,               \* the requests the current run sent to GitHub / CircleCI
    review_locals,          \* CheckReviewsStep::execute's locals, once it has run
    merge_result,           \* what merger.merge returned to run(): <<>> or <<result>>
    last_head_hash,         \* CheckBuildFailed.last_head_hash: <<>> or <<sha>>
    status_failures,        \* CheckBuildFailed.status_failures: name -> count
    summaries,              \* check_statuses' StatusSummaries, while the step runs
    statuses_result,        \* execute's statuses_result, while the step runs
    reviews,                \* input of the approval computation
    approvals,              \* its result: <<>> or <<count>>
    input,                  \* input of a sub-check called on its own
    output,                 \* its result: <<>> or <<result>>
    history,                \* what earlier polls observed, where it is recorded
    repo_map                \* a RepoMap of main's split_repo_configs: <<>> or <<map>>

vars == <<steps, merger, reviews_config, status_failures_config, workflow_runners,
          pc, idx, context, result, executed, requests, review_locals,
          merge_result,
          last_head_hash, status_failures, summaries, statuses_result,
          reviews, approvals, input, output, history, repo_map>>

(***************************************************************************)
(* Bounds of the model.                                                    *)
(***************************************************************************)
MaxReviews == 3
MaxPipelineReviews == 2
MaxApprovals == 1
MaxFailures == 1
MaxStatuses == 1
MaxActionRuns == 1
MaxThreshold == 2
MaxListedRuns == 2
MaxListedStatuses == 2
MaxJobUrls == 3
MaxConfigValue == 2

(***************************************************************************)
(* Option<T> and small helpers.                                            *)
(***************************************************************************)
None == <<>>
Some(x) == <<x>>
IsSome(o) == Len(o) = 1
Unwrap(o) == o[1]

Max(a, b) == IF a >= b THEN a ELSE b

SeqsUpTo(S, n) == UNION {[1..k -> S] : k \in 0..n}

Range(s) == {s[i] : i \in 1..Len(s)}

(***************************************************************************)
(* Results.  A Result<T, Error> is a record [tag, kind, msg]:              *)
(*   Ok(v)       [tag |-> "Ok",  kind |-> v,            msg |-> ""]        *)
(*   Err(e)      [tag |-> "Err", kind |-> e's variant,  msg |-> e's text]  *)
(***************************************************************************)
Ok(v) == [tag |-> "Ok", kind |-> v, msg |-> ""]
Err(kind, msg) == [tag |-> "Err", kind |-> kind, msg |-> msg]
NoResult == [tag |-> "None", kind |-> "", msg |-> ""]

IsOk(r) == r.tag = "Ok"
IsErr(r) == r.tag = "Err"

\* processing::Error::as_generic
as_generic(message) == Err("Generic", message)

\* client::Error: the HTTP status codes the code classifies, one it does not,
\* and the exhausted rate-limit retries.
HttpStatuses == {"NOT_FOUND", "METHOD_NOT_ALLOWED", "CONFLICT", "UNPROCESSABLE_ENTITY",
                 "INTERNAL_SERVER_ERROR"}
ClientErrors == HttpStatuses \cup {"RateLimitRetries"}

\* processing::Error::Client(#[from] client::Error): `e.into()` and `?`
ClientErr(e) == Err("Client", e)

not_found(e) == e = "NOT_FOUND"
unprocessable_entity(e) == e = "UNPROCESSABLE_ENTITY"
method_not_allowed(e) == e = "METHOD_NOT_ALLOWED"
conflict(e) == e = "CONFLICT"

\* A collaborator's answer: Ok(v) is [ok |-> TRUE, value |-> <<v>>], Err(e) is
\* [ok |-> FALSE, value |-> <<>>, error |-> e]
Answer(v) == [ok |-> TRUE, value |-> Some(v), error |-> ""]
Failure(e) == [ok |-> FALSE, value |-> None, error |-> e]
Failures == {Failure(e) : e \in ClientErrors}
NoBody == "NoBody"

(***************************************************************************)
(* github::models                                                          *)
(***************************************************************************)
MergeableState == {"Behind", "Clean", "Blocked", "Unstable", "Dirty", "Unknown"}
PullRequestState == {"Open", "Closed", "Unknown"}
ReviewState == {"Approved", "ChangesRequested", "Commented", "Dismissed", "Pending"}
MergeMethod == {"Merge", "Squash", "Rebase"}
Shas == {"sha1", "sha2"}
Users == {"bob", "mike"}

\* The snapshots pull_request_info can answer; GitHub reports merged only for
\* a closed pull request.
PullRequest ==
    {pr \in [state : PullRequestState, draft : BOOLEAN, merged : BOOLEAN,
             mergeable_state : MergeableState, sha : Shas] :
        pr.merged => pr.state = "Closed"}

PullRequestReview == [user : Users, state : ReviewState]

\* The reviews a poll of the pipeline is answered with: the two states that
\* move the count.
PolledReview == [user : Users, state : {"Approved", "ChangesRequested"}]

(***************************************************************************)
(* processing::steps::StepStatus and the current run's log                 *)
(***************************************************************************)
Passed == Ok("Passed")
Waiting == Ok("Waiting")

\* A request sent to a collaborator: the client method, what it is about,
\* the head sha where the request carries one, and the collaborator's answer:
\* "ok" or the error.
RequestAt(op, arg, sha, answer) == [op |-> op, arg |-> arg, sha |-> sha, answer |-> answer]
Request(op, arg, answer) == RequestAt(op, arg, "", answer)
AnswerOf(a) == IF a.ok THEN "ok" ELSE a.error

pull_request == Unwrap(context)

(***************************************************************************)
(* CheckCurrentStateStep                                                   *)
(***************************************************************************)
\* Mutant: a draft is waited for instead of failing the run
CheckCurrentStateStep_status_DraftWaits(pr) ==
    CASE pr.state = "Open" ->
            IF pr.draft THEN Waiting
            ELSE IF pr.mergeable_state = "Dirty"
                 THEN as_generic("pull request has conflicts")
                 ELSE Passed
      [] pr.state = "Closed" /\ pr.merged ->
            as_generic("pull request is already merged")
      [] pr.state = "Closed" /\ ~pr.merged ->
            as_generic("pull request is closed")
      [] pr.state = "Unknown" ->
            Err("UnsupportedPullRequestState", "pull request state is unknown")

\* Mutant: a pull request with conflicts passes the state check
CheckCurrentStateStep_status_ConflictsPass(pr) ==
    CASE pr.state = "Open" ->
            IF pr.draft THEN as_generic("pull request is a draft") ELSE Passed
      [] pr.state = "Closed" /\ pr.merged ->
            as_generic("pull request is already merged")
      [] pr.state = "Closed" /\ ~pr.merged ->
            as_generic("pull request is closed")
      [] pr.state = "Unknown" ->
            Err("UnsupportedPullRequestState", "pull request state is unknown")

CheckCurrentStateStep_status(pr) ==
    CASE pr.state = "Open" ->
            IF pr.draft THEN as_generic("pull request is a draft")
            ELSE IF pr.mergeable_state = "Dirty"
                 THEN as_generic("pull request has conflicts")
                 ELSE Passed
      [] pr.state = "Closed" /\ pr.merged ->
            as_generic("pull request is already merged")
      [] pr.state = "Closed" /\ ~pr.merged ->
            as_generic("pull request is closed")
      [] pr.state = "Unknown" ->
            Err("UnsupportedPullRequestState", "pull request state is unknown")

(***************************************************************************)
(* CheckReviewsStep                                                        *)
(***************************************************************************)
\* fetch_branch_protection: Ok(Some(protection)), Ok(None) on 404, Err otherwise.
\* The Ok value is an Option of the protection's approvals.
fetch_branch_protection(answer) ==
    IF answer.ok THEN Ok(answer.value)
    ELSE IF not_found(answer.error) THEN Ok(None)
    ELSE ClientErr(answer.error)

\* Mutant: a comment takes the reviewer's approval back
RECURSIVE users_approved_after_CommentRevokes(_, _)
users_approved_after_CommentRevokes(list, users_approved) ==
    IF list = <<>> THEN users_approved
    ELSE LET review == Head(list)
             next == CASE review.state = "Approved" ->
                              users_approved \cup {review.user}
                        [] review.state \in {"ChangesRequested", "Dismissed", "Commented"} ->
                              users_approved \ {review.user}
                        [] OTHER -> users_approved
         IN  users_approved_after_CommentRevokes(Tail(list), next)

\* compute_approvals: the loop over the reviews, users_approved being the HashSet.
RECURSIVE users_approved_after(_, _)
users_approved_after(list, users_approved) ==
    IF list = <<>> THEN users_approved
    ELSE LET review == Head(list)
             next == CASE review.state = "Approved" ->
                              users_approved \cup {review.user}
                        [] review.state \in {"ChangesRequested", "Dismissed"} ->
                              users_approved \ {review.user}
                        [] OTHER -> users_approved
         IN  users_approved_after(Tail(list), next)

\* Mutant: every approving review counts, not every approving user
compute_approvals_CountsReviews(list) ==
    Cardinality({i \in 1..Len(list) : list[i].state = "Approved"})

compute_approvals(list) == Cardinality(users_approved_after(list, {}))

\* Mutant: a branch protection replaces the configured approvals
required_approvals_ProtectionOnly(configured_approvals, branch_protection) ==
    IF IsSome(branch_protection)
    THEN Unwrap(branch_protection)
    ELSE configured_approvals

\* required_approvals
required_approvals(configured_approvals, branch_protection) ==
    IF IsSome(branch_protection)
    THEN Max(Unwrap(branch_protection), configured_approvals)
    ELSE configured_approvals

\* CheckReviewsStep::execute, given GitHub's two answers.  The second request
\* is only sent when the first did not fail.
CheckReviewsStep_locals(protection_answer, reviews_answer) ==
    LET branch_protection == fetch_branch_protection(protection_answer)
        approvals_needed == required_approvals(reviews_config, branch_protection.kind)
        total_users_approved == compute_approvals(Unwrap(reviews_answer.value))
    IN  [protection_answer |-> protection_answer,
         approvals_needed |-> IF IsOk(branch_protection) THEN Some(approvals_needed)
                              ELSE None,
         total_users_approved |-> IF IsOk(branch_protection) /\ reviews_answer.ok
                                  THEN Some(total_users_approved) ELSE None]

\* Mutant: too few approvals are waited for
CheckReviewsStep_status_Waits(protection_answer, reviews_answer) ==
    LET branch_protection == fetch_branch_protection(protection_answer)
        approvals_needed == required_approvals(reviews_config, branch_protection.kind)
        total_users_approved == compute_approvals(Unwrap(reviews_answer.value))
    IN  IF IsErr(branch_protection) THEN branch_protection
        ELSE IF ~reviews_answer.ok THEN ClientErr(reviews_answer.error)
        ELSE IF total_users_approved < approvals_needed
             THEN Waiting
             ELSE Passed

CheckReviewsStep_status(protection_answer, reviews_answer) ==
    LET branch_protection == fetch_branch_protection(protection_answer)
        approvals_needed == required_approvals(reviews_config, branch_protection.kind)
        total_users_approved == compute_approvals(Unwrap(reviews_answer.value))
    IN  IF IsErr(branch_protection) THEN branch_protection
        ELSE IF ~reviews_answer.ok THEN ClientErr(reviews_answer.error)
        ELSE IF total_users_approved < approvals_needed
             THEN as_generic("not enough approvals")
             ELSE Passed

(***************************************************************************)
(* CheckBehindMaster                                                       *)
(***************************************************************************)
\* Mutant: once the branch is updated the step passes
CheckBehindMaster_status_PassesAfterUpdate(update_answer) ==
    IF update_answer.ok THEN Passed
    ELSE IF unprocessable_entity(update_answer.error) THEN Waiting
    ELSE ClientErr(update_answer.error)

\* The match on update_branch's result.
CheckBehindMaster_status(update_answer) ==
    IF update_answer.ok THEN Waiting
    ELSE IF unprocessable_entity(update_answer.error) THEN Waiting
    ELSE ClientErr(update_answer.error)

(***************************************************************************)
(* CheckBuildFailed: the external statuses                                 *)
(***************************************************************************)
Contexts == {"a", "b"}
StatusState == {"Success", "Failure", "Pending"}
\* Status.target_url, by what the code can tell apart: a string Url::parse
\* rejects, a URL of another domain, a circleci.com URL without the four path
\* segments, and the job pages of two CircleCI jobs.
TargetUrls == {"invalid", "other", "circleci_bad", "circleci_job1", "circleci_job2"}
Status == [context : Contexts, state : StatusState, target_url : TargetUrls]

\* All the orders a HashMap of the keys S can be iterated in.
Perms(S) == {p \in [1..Cardinality(S) -> S] : Range(p) = S}

\* fetch_status_summaries' first loop: `entry(context).or_insert(status)` keeps,
\* for every context, the first status of the list.
last_run_per_status(statuses) ==
    [c \in {statuses[i].context : i \in 1..Len(statuses)} |->
        statuses[CHOOSE i \in 1..Len(statuses) :
                    /\ statuses[i].context = c
                    /\ \A j \in 1..(i - 1) : statuses[j].context # c]]

\* parse_status_url
parse_status_url(url) ==
    IF url = "invalid" THEN as_generic("invalid status target URL") ELSE Ok(url)

\* fetch_status_summaries' second loop, over the map in the order `order`:
\* Ok with the StatusSummaries, or the first URL error.
fetch_status_summaries(statuses, order) ==
    LET last == last_run_per_status(statuses)
        summary(c) == [name |-> c, url |-> last[c].target_url]
        in_state(st) == LET Test(c) == last[c].state = st
                            picked == SelectSeq(order, Test)
                        IN  [i \in 1..Len(picked) |-> summary(picked[i])]
    IN  IF \E c \in DOMAIN last : IsErr(parse_status_url(last[c].target_url))
        THEN [result |-> as_generic("invalid status target URL"),
              pending |-> <<>>, failed |-> <<>>]
        ELSE [result |-> Ok("StatusSummaries"),
              pending |-> in_state("Pending"), failed |-> in_state("Failure")]

\* Mutant: failures of statuses without a threshold are counted too
RECURSIVE check_max_failures_CountsAll(_, _)
check_max_failures_CountsAll(failed_statuses, failures) ==
    IF failed_statuses = <<>> THEN [result |-> Ok("()"), failures |-> failures]
    ELSE LET name == Head(failed_statuses).name
             count == (IF name \in DOMAIN failures THEN failures[name] ELSE 0) + 1
             counted == [n \in DOMAIN failures \cup {name} |->
                            IF n = name THEN count ELSE failures[n]]
         IN  IF name \in DOMAIN status_failures_config
                /\ count >= status_failures_config[name]
             THEN [result |-> as_generic("status check reached max failures"),
                   failures |-> counted]
             ELSE check_max_failures_CountsAll(Tail(failed_statuses), counted)

\* Mutant: the threshold must be exceeded, not reached
RECURSIVE check_max_failures_Late(_, _)
check_max_failures_Late(failed_statuses, failures) ==
    IF failed_statuses = <<>> THEN [result |-> Ok("()"), failures |-> failures]
    ELSE LET name == Head(failed_statuses).name
         IN  IF name \in DOMAIN status_failures_config
             THEN LET count == (IF name \in DOMAIN failures THEN failures[name] ELSE 0) + 1
                      counted == [n \in DOMAIN failures \cup {name} |->
                                     IF n = name THEN count ELSE failures[n]]
                  IN  IF count > status_failures_config[name]
                      THEN [result |-> as_generic("status check reached max failures"),
                            failures |-> counted]
                      ELSE check_max_failures_Late(Tail(failed_statuses), counted)
             ELSE check_max_failures_Late(Tail(failed_statuses), failures)

\* Mutant: the failures are counted and never compared with the threshold
RECURSIVE check_max_failures_Unbounded(_, _)
check_max_failures_Unbounded(failed_statuses, failures) ==
    IF failed_statuses = <<>> THEN [result |-> Ok("()"), failures |-> failures]
    ELSE LET name == Head(failed_statuses).name
         IN  IF name \in DOMAIN status_failures_config
             THEN LET count == (IF name \in DOMAIN failures THEN failures[name] ELSE 0) + 1
                      counted == [n \in DOMAIN failures \cup {name} |->
                                     IF n = name THEN count ELSE failures[n]]
                  IN  check_max_failures_Unbounded(Tail(failed_statuses), counted)
             ELSE check_max_failures_Unbounded(Tail(failed_statuses), failures)

\* check_max_failures: the loop over the failed statuses.  Returns the counters
\* as the loop leaves them and Ok or the error it stopped with.
RECURSIVE check_max_failures(_, _)
check_max_failures(failed_statuses, failures) ==
    IF failed_statuses = <<>> THEN [result |-> Ok("()"), failures |-> failures]
    ELSE LET name == Head(failed_statuses).name
         IN  IF name \in DOMAIN status_failures_config
             THEN LET count == (IF name \in DOMAIN failures THEN failures[name] ELSE 0) + 1
                      counted == [n \in DOMAIN failures \cup {name} |->
                                     IF n = name THEN count ELSE failures[n]]
                  IN  IF count >= status_failures_config[name]
                      THEN [result |-> as_generic("status check reached max failures"),
                            failures |-> counted]
                      ELSE check_max_failures(Tail(failed_statuses), counted)
             ELSE check_max_failures(Tail(failed_statuses), failures)

(***************************************************************************)
(* circleci::workflows::CircleCiWorkflowRunner                             *)
(***************************************************************************)
Jobs == {1, 2}
WorkflowIds == {"w1", "w2"}

\* Mutant: a URL of another domain is an invalid URL
parse_job_url_StrangerFails(url) ==
    CASE url = "other" -> as_generic("invalid URL")
      [] url = "circleci_bad" -> as_generic("invalid URL")
      [] url = "circleci_job1" -> Ok("Job")
      [] url = "circleci_job2" -> Ok("Job")

\* parse_job_url: Unrelated, an error, or the job
parse_job_url(url) ==
    CASE url = "other" -> Ok("Unrelated")
      [] url = "circleci_bad" -> as_generic("invalid URL")
      [] url = "circleci_job1" -> Ok("Job")
      [] url = "circleci_job2" -> Ok("Job")

job_id(url) == IF url = "circleci_job1" THEN 1 ELSE 2

\* Mutant: a workflow is re-run as soon as its job's lookup answered
RECURSIVE gather_failed_workflow_ids_RerunsAtOnce(_, _, _, _)
gather_failed_workflow_ids_RerunsAtOnce(job_urls, job_info, ids, sent) ==
    IF job_urls = <<>> THEN [result |-> Ok("()"), ids |-> ids, requests |-> sent]
    ELSE LET url == Head(job_urls)
             parsed == parse_job_url(url)
             asked == Append(sent, Request("job_info", url,
                        IF job_info[job_id(url)] = "error"
                        THEN "INTERNAL_SERVER_ERROR" ELSE "ok"))
         IN  IF IsErr(parsed) THEN [result |-> parsed, ids |-> ids, requests |-> sent]
             ELSE IF parsed.kind = "Unrelated"
                  THEN gather_failed_workflow_ids_RerunsAtOnce(Tail(job_urls), job_info,
                                                               ids, sent)
             ELSE IF job_info[job_id(url)] = "error"
                  THEN [result |-> ClientErr("INTERNAL_SERVER_ERROR"), ids |-> ids,
                        requests |-> asked]
             ELSE gather_failed_workflow_ids_RerunsAtOnce(Tail(job_urls), job_info,
                        ids \cup {job_info[job_id(url)]},
                        Append(asked, Request("circleci_rerun_workflow",
                                              job_info[job_id(url)], "ok")))

\* process_failed_jobs' first loop: the workflow ids gathered, the job_info
\* requests sent, and Ok or the error the loop stopped with.  job_info[j] is
\* CircleCI's answer for job j: a workflow id or "error".
RECURSIVE gather_failed_workflow_ids(_, _, _, _)
gather_failed_workflow_ids(job_urls, job_info, ids, sent) ==
    IF job_urls = <<>> THEN [result |-> Ok("()"), ids |-> ids, requests |-> sent]
    ELSE LET url == Head(job_urls)
             parsed == parse_job_url(url)
             asked == Append(sent, Request("job_info", url,
                        IF job_info[job_id(url)] = "error"
                        THEN "INTERNAL_SERVER_ERROR" ELSE "ok"))
         IN  IF IsErr(parsed) THEN [result |-> parsed, ids |-> ids, requests |-> sent]
             ELSE IF parsed.kind = "Unrelated"
                  THEN gather_failed_workflow_ids(Tail(job_urls), job_info, ids, sent)
             ELSE IF job_info[job_id(url)] = "error"
                  THEN [result |-> ClientErr("INTERNAL_SERVER_ERROR"), ids |-> ids,
                        requests |-> asked]
             ELSE gather_failed_workflow_ids(Tail(job_urls), job_info,
                                             ids \cup {job_info[job_id(url)]}, asked)

\* process_failed_jobs' second loop, over the HashSet in the order `order`;
\* the re-run of a workflow in `failing` fails.
RECURSIVE rerun_workflows(_, _, _)
rerun_workflows(order, failing, sent) ==
    IF order = <<>> THEN [result |-> Ok("Triggered"), requests |-> sent]
    ELSE LET asked == Append(sent, Request("circleci_rerun_workflow", Head(order),
                        IF Head(order) \in failing
                        THEN "INTERNAL_SERVER_ERROR" ELSE "ok"))
         IN  IF Head(order) \in failing
             THEN [result |-> ClientErr("INTERNAL_SERVER_ERROR"), requests |-> asked]
             ELSE rerun_workflows(Tail(order), failing, asked)

\* process_failed_jobs.  `order` is an iteration order of the gathered ids.
CircleCiWorkflowRunner_process_failed_jobs(job_urls, job_info, order, failing) ==
    LET second_loop(gathered) ==
            IF IsErr(gathered.result)
            THEN [result |-> gathered.result, requests |-> gathered.requests]
            ELSE IF gathered.ids = {}
                 THEN [result |-> Ok("Success"), requests |-> gathered.requests]
                 ELSE rerun_workflows(order, failing, gathered.requests)
    IN  second_loop(gather_failed_workflow_ids(job_urls, job_info, {}, <<>>))

(***************************************************************************)
(* CheckBuildFailed: process_failed_statuses, check_statuses, check_actions *)
(***************************************************************************)
\* process_failed_statuses' loop over the runners: how many reported
\* Triggered, the requests sent, and Ok or the error the loop stopped with.
RECURSIVE run_workflow_runners(_, _, _, _, _, _, _)
run_workflow_runners(runners, job_urls, job_info, order, failing, total_triggered, sent) ==
    IF runners = <<>>
    THEN [result |-> Ok("()"), total_triggered |-> total_triggered, requests |-> sent]
    ELSE LET asked(ran) ==
                Append(sent, Request("process_failed_jobs", Head(runners),
                                     IF IsErr(ran.result) THEN "error"
                                     ELSE ran.result.kind))
                    \o ran.requests
             match(ran, sent_now) ==
                IF IsErr(ran.result)
                THEN [result |-> ran.result, total_triggered |-> total_triggered,
                      requests |-> sent_now]
                ELSE run_workflow_runners(Tail(runners), job_urls, job_info, order,
                         failing,
                         total_triggered + (IF ran.result.kind = "Triggered" THEN 1 ELSE 0),
                         sent_now)
             runner(ran) == match(ran, asked(ran))
         IN  runner(CircleCiWorkflowRunner_process_failed_jobs(job_urls, job_info,
                                                               order, failing))

\* Mutant: the runners are asked before the thresholds are looked at
process_failed_statuses_RunnersFirst(statuses, failures, job_info, order, failing) ==
    LET failed_job_urls == [i \in 1..Len(statuses) |-> statuses[i].url]
        body(checked, ran) ==
            IF IsErr(ran.result)
            THEN [result |-> ran.result, failures |-> checked.failures,
                  requests |-> ran.requests]
            ELSE IF IsErr(checked.result)
            THEN [result |-> checked.result, failures |-> checked.failures,
                  requests |-> ran.requests]
            ELSE IF ran.total_triggered = 0
            THEN [result |-> as_generic("failed jobs belong to unknown external services"),
                  failures |-> checked.failures, requests |-> ran.requests]
            ELSE [result |-> Ok("()"), failures |-> checked.failures,
                  requests |-> ran.requests]
    IN  body(check_max_failures(statuses, failures),
             run_workflow_runners(workflow_runners, failed_job_urls, job_info,
                                  order, failing, 0, <<>>))

\* Mutant: failed jobs nobody re-triggered are waited for
process_failed_statuses_NoTriggerWaits(statuses, failures, job_info, order, failing) ==
    LET failed_job_urls == [i \in 1..Len(statuses) |-> statuses[i].url]
        body(checked, ran) ==
            IF IsErr(checked.result)
            THEN [result |-> checked.result, failures |-> checked.failures,
                  requests |-> <<>>]
            ELSE IF IsErr(ran.result)
            THEN [result |-> ran.result, failures |-> checked.failures,
                  requests |-> ran.requests]
            ELSE [result |-> Ok("()"), failures |-> checked.failures,
                  requests |-> ran.requests]
    IN  body(check_max_failures(statuses, failures),
             run_workflow_runners(workflow_runners, failed_job_urls, job_info,
                                  order, failing, 0, <<>>))

\* process_failed_statuses: the counters it leaves, the requests it sent, and
\* Ok or its error.
process_failed_statuses(statuses, failures, job_info, order, failing) ==
    LET failed_job_urls == [i \in 1..Len(statuses) |-> statuses[i].url]
        body(checked, ran) ==
            IF IsErr(checked.result)
            THEN [result |-> checked.result, failures |-> checked.failures,
                  requests |-> <<>>]
            ELSE IF IsErr(ran.result)
            THEN [result |-> ran.result, failures |-> checked.failures,
                  requests |-> ran.requests]
            ELSE IF ran.total_triggered = 0
            THEN [result |-> as_generic("failed jobs belong to unknown external services"),
                  failures |-> checked.failures, requests |-> ran.requests]
            ELSE [result |-> Ok("()"), failures |-> checked.failures,
                  requests |-> ran.requests]
    IN  body(check_max_failures(statuses, failures),
             run_workflow_runners(workflow_runners, failed_job_urls, job_info,
                                  order, failing, 0, <<>>))

\* Mutant: the failed statuses are processed while others are pending
check_statuses_ProcessesWhilePending(fetched, failures, job_info, order, failing) ==
    LET body(processed) ==
            IF fetched.failed = <<>>
            THEN [result |-> IF Len(fetched.pending) = 0 THEN Passed ELSE Waiting,
                  failures |-> failures, requests |-> <<>>]
            ELSE IF IsErr(processed.result) THEN processed
            ELSE [result |-> Waiting, failures |-> processed.failures,
                  requests |-> processed.requests]
    IN  body(process_failed_statuses(fetched.failed, failures, job_info,
                                     order, failing))

\* check_statuses, after fetch_status_summaries answered `fetched`.
check_statuses(fetched, failures, job_info, order, failing) ==
    LET body(processed) ==
            IF Len(fetched.pending) = 0
            THEN IF fetched.failed = <<>>
                 THEN [result |-> Passed, failures |-> failures, requests |-> <<>>]
                 ELSE IF IsErr(processed.result) THEN processed
                 ELSE [result |-> Waiting, failures |-> processed.failures,
                       requests |-> processed.requests]
            ELSE [result |-> Waiting, failures |-> failures, requests |-> <<>>]
    IN  body(process_failed_statuses(fetched.failed, failures, job_info,
                                     order, failing))

\* github::models::WorkflowRun; conclusion "None" is Option::None
WorkflowRunConclusion == {"Success", "Failure"}
WorkflowRun == [workflow_id : {41, 42}, head_sha : Shas,
                conclusion : WorkflowRunConclusion \cup {"None"}]

\* The run ids GitHub gives: every run of a list has its own.
with_ids(list) ==
    [i \in 1..Len(list) |->
        [id |-> i, workflow_id |-> list[i].workflow_id, head_sha |-> list[i].head_sha,
         conclusion |-> list[i].conclusion]]

\* fetch_action_runs' first loop: runs of another head are skipped, and
\* `entry(workflow_id).or_insert(run)` keeps the first run of every workflow.
last_run_per_workflow(workflow_runs, sha) ==
    LET Mine(i) == workflow_runs[i].head_sha = sha
    IN  [w \in {workflow_runs[i].workflow_id : i \in {k \in 1..Len(workflow_runs) : Mine(k)}} |->
            workflow_runs[CHOOSE i \in 1..Len(workflow_runs) :
                /\ Mine(i)
                /\ workflow_runs[i].workflow_id = w
                /\ \A j \in 1..(i - 1) : ~(Mine(j) /\ workflow_runs[j].workflow_id = w)]]

\* fetch_action_runs' second loop, over the map's values in the order `order`
fetch_action_runs(workflow_runs, sha, order) ==
    LET last == last_run_per_workflow(workflow_runs, sha)
        with(conclusion) == LET Test(w) == last[w].conclusion = conclusion
                                picked == SelectSeq(order, Test)
                            IN  [i \in 1..Len(picked) |-> last[picked[i]]]
    IN  [pending |-> with("None"), failed |-> with("Failure")]

\* process_failed_actions: one rerun_workflow per failed run, until one fails
RECURSIVE process_failed_actions(_, _, _)
process_failed_actions(actions, failing, sent) ==
    IF actions = <<>> THEN [result |-> Ok("()"), requests |-> sent]
    ELSE LET asked == Append(sent, Request("rerun_workflow", ToString(Head(actions).id),
                        IF Head(actions).id \in failing
                        THEN "INTERNAL_SERVER_ERROR" ELSE "ok"))
         IN  IF Head(actions).id \in failing
             THEN [result |-> ClientErr("INTERNAL_SERVER_ERROR"), requests |-> asked]
             ELSE process_failed_actions(Tail(actions), failing, asked)

\* Mutant: failed runs are re-run while other workflows are still running
check_actions_RerunsWhilePending(split_runs, failing) ==
    LET processed == process_failed_actions(split_runs.failed, failing, <<>>)
    IN  IF split_runs.failed = <<>>
        THEN [result |-> IF Len(split_runs.pending) = 0 THEN Passed ELSE Waiting,
              requests |-> <<>>]
        ELSE IF IsErr(processed.result) THEN processed
        ELSE [result |-> Waiting, requests |-> processed.requests]

\* check_actions, after fetch_action_runs answered `split_runs`
check_actions(split_runs, failing) ==
    LET processed == process_failed_actions(split_runs.failed, failing, <<>>)
    IN  IF Len(split_runs.pending) = 0
        THEN IF split_runs.failed = <<>>
             THEN [result |-> Passed, requests |-> <<>>]
             ELSE IF IsErr(processed.result) THEN processed
             ELSE [result |-> Waiting, requests |-> processed.requests]
        ELSE [result |-> Waiting, requests |-> <<>>]

\* Mutant: two passed sub-checks pass the step, blocked or not
CheckBuildFailed_combine_BothPassedPasses(statuses, actions, pr) ==
    IF statuses = Passed /\ actions = Passed THEN Passed ELSE Waiting

\* The end of CheckBuildFailed::execute: the two results combined
CheckBuildFailed_combine(statuses, actions, pr) ==
    IF statuses = Passed /\ actions = Passed /\ pr.mergeable_state = "Blocked"
    THEN as_generic("pull request is blocked for unknown reasons")
    ELSE Waiting

(***************************************************************************)
(* processing::merge                                                       *)
(***************************************************************************)
\* Vec::swap
Swap(s, i, j) == [s EXCEPT ![i] = s[j], ![j] = s[i]]

\* Mutant: the list is rotated until the default is first
build_merge_methods_Rotates(default_method) ==
    CASE default_method = "Squash" -> <<"Squash", "Merge", "Rebase">>
      [] default_method = "Merge" -> <<"Merge", "Rebase", "Squash">>
      [] default_method = "Rebase" -> <<"Rebase", "Squash", "Merge">>

build_merge_methods(default_method) ==
    LET methods == <<"Squash", "Merge", "Rebase">>
        default_index == CHOOSE i \in 1..Len(methods) : methods[i] = default_method
    IN  Swap(methods, default_index, 1)

\* Mutant: the methods left are tried after one succeeded
RECURSIVE merge_loop_TriesAll(_, _, _, _)
merge_loop_TriesAll(methods, answers, sha, sent) ==
    IF methods = <<>> THEN [result |-> as_generic("No merge method allowed"),
                            requests |-> sent]
    ELSE LET method == Head(methods)
             asked == Append(sent, RequestAt("merge_pull_request", method, sha,
                                             answers[method]))
         IN  IF answers[method] = "ok"
             THEN [result |-> Ok("()"),
                   requests |-> IF Tail(methods) = <<>> THEN asked
                                ELSE merge_loop_TriesAll(Tail(methods), answers, sha,
                                                         asked).requests]
             ELSE IF method_not_allowed(answers[method])
                  THEN merge_loop_TriesAll(Tail(methods), answers, sha, asked)
                  ELSE [result |-> ClientErr(answers[method]), requests |-> asked]

\* Mutant: every failure moves on to the next method
RECURSIVE merge_loop_RetriesErrors(_, _, _, _)
merge_loop_RetriesErrors(methods, answers, sha, sent) ==
    IF methods = <<>> THEN [result |-> as_generic("No merge method allowed"),
                            requests |-> sent]
    ELSE LET method == Head(methods)
             asked == Append(sent, RequestAt("merge_pull_request", method, sha,
                                             answers[method]))
         IN  IF answers[method] = "ok" THEN [result |-> Ok("()"), requests |-> asked]
             ELSE merge_loop_RetriesErrors(Tail(methods), answers, sha, asked)

\* Mutant: running out of methods is a success
RECURSIVE merge_loop_ExhaustedOk(_, _, _, _)
merge_loop_ExhaustedOk(methods, answers, sha, sent) ==
    IF methods = <<>> THEN [result |-> Ok("()"), requests |-> sent]
    ELSE LET method == Head(methods)
             asked == Append(sent, RequestAt("merge_pull_request", method, sha,
                                             answers[method]))
         IN  IF answers[method] = "ok" THEN [result |-> Ok("()"), requests |-> asked]
             ELSE IF method_not_allowed(answers[method])
                  THEN merge_loop_ExhaustedOk(Tail(methods), answers, sha, asked)
                  ELSE [result |-> ClientErr(answers[method]), requests |-> asked]

\* DefaultPullRequestMerger::merge: the loop over the methods.  answers[m] is
\* GitHub's answer to a merge request with method m: "ok" or a client error.
RECURSIVE merge_loop(_, _, _, _)
merge_loop(methods, answers, sha, sent) ==
    IF methods = <<>> THEN [result |-> as_generic("No merge method allowed"),
                            requests |-> sent]
    ELSE LET method == Head(methods)
             asked == Append(sent, RequestAt("merge_pull_request", method, sha,
                                             answers[method]))
         IN  IF answers[method] = "ok" THEN [result |-> Ok("()"), requests |-> asked]
             ELSE IF method_not_allowed(answers[method])
                  THEN merge_loop(Tail(methods), answers, sha, asked)
                  ELSE [result |-> ClientErr(answers[method]), requests |-> asked]

\* Mutant: the dry-run merger merges with the merge method
PullRequestMerger_merge_DummyMerges(m, answers, sha) ==
    IF m.kind = "Dummy"
    THEN [result |-> Ok("()"),
          requests |-> <<RequestAt("merge_pull_request", "Merge", sha, "ok")>>]
    ELSE merge_loop(m.merge_methods, answers, sha, <<>>)

\* Mutant: the last method of the list is tried alone
PullRequestMerger_merge_LastMethod(m, answers, sha) ==
    IF m.kind = "Dummy" THEN [result |-> Ok("()"), requests |-> <<>>]
    ELSE merge_loop(<<m.merge_methods[Len(m.merge_methods)]>>, answers, sha, <<>>)

\* PullRequestMerger::merge of the Director's merger
PullRequestMerger_merge(m, answers, sha) ==
    IF m.kind = "Dummy" THEN [result |-> Ok("()"), requests |-> <<>>]
    ELSE merge_loop(m.merge_methods, answers, sha, <<>>)

(***************************************************************************)
(* common::RepoMap                                                         *)
(***************************************************************************)
Owners == {"owner", "other"}
RepoNames == {"repo", "override"}

\* common::RepoMatcher
Specific(repo) == [kind |-> "Specific", name |-> repo]
Wildcard == [kind |-> "Wildcard", name |-> ""]

\* common::RepoIdentifier, as from_str builds them: "*" is the wildcard
RepoIdentifier == [owner : Owners, repo : {Specific(r) : r \in RepoNames} \cup {Wildcard}]

\* RepoMap::new
RepoMap_new(default) == [default |-> default, entries |-> <<>>]

\* RepoMap::insert: Ok and the map with the entry, or the duplicate error and
\* the map as it was
RepoMap_insert(map, repo, value) ==
    IF repo \in DOMAIN map.entries
    THEN [result |-> Err("DuplicateRepo", "duplicate repo entry"), map |-> map]
    ELSE [result |-> Ok("()"),
          map |-> [map EXCEPT !.entries =
                        [k \in DOMAIN map.entries \cup {repo} |->
                            IF k = repo THEN value ELSE map.entries[k]]]]

\* Mutant: the owner's wildcard entry is looked up before the exact one
RepoMap_get_WildcardFirst(map, owner, repo) ==
    LET exact == [owner |-> owner, repo |-> Specific(repo)]
        wildcard == [owner |-> owner, repo |-> Wildcard]
    IN  IF wildcard \in DOMAIN map.entries THEN map.entries[wildcard]
        ELSE IF exact \in DOMAIN map.entries THEN map.entries[exact]
        ELSE map.default

\* RepoMap::get
RepoMap_get(map, owner, repo) ==
    LET exact == [owner |-> owner, repo |-> Specific(repo)]
        wildcard == [owner |-> owner, repo |-> Wildcard]
    IN  IF exact \in DOMAIN map.entries THEN map.entries[exact]
        ELSE IF wildcard \in DOMAIN map.entries THEN map.entries[wildcard]
        ELSE map.default

(***************************************************************************)
(* Construction: main and Director::new                                    *)
(***************************************************************************)
\* Director::build_steps
Director_build_steps ==
    <<"CheckCurrentStateStep", "CheckReviewsStep", "CheckBehindMaster", "CheckBuildFailed">>

\* main's build_steps
main_build_steps(ignore_reviews) ==
    LET always == <<"CheckCurrentStateStep", "CheckBehindMaster", "CheckBuildFailed">>
    IN  IF ignore_reviews THEN always ELSE Append(always, "CheckReviewsStep")

\* main: the dry-run merger or the default one
DummyPullRequestMerger == [kind |-> "Dummy", merge_methods |-> <<>>]
DefaultPullRequestMerger_new(default_method) ==
    [kind |-> "Default", merge_methods |-> build_merge_methods(default_method)]

\* config.rs: the defaults of a configuration that sets nothing
MergeConfig_default == "Merge"
default_reviews_config == 1

\* The per-status thresholds a configuration can give
StatusFailuresConfigs ==
    {<<>>} \cup {[c \in {"a"} |-> n] : n \in 1..MaxFailures}

\* The record of the polls so far, kept only where `history` starts as Some:
\* the head sha of the previous poll's snapshot, and how many polls in a row,
\* from the first one on, found a status with a configured threshold failed
\* with none pending under one head sha (count -1: not every poll so far).
NoHistory == [previous_head |-> "", count |-> 0, extended |-> FALSE, sha |-> "",
              results |-> None, streak |-> 0, invoked |-> 0, streak_sha |-> ""]

\* `streak` is the number of most recent polls in a row, under the head
\* streak_sha, whose current statuses had a thresholded one failed (a poll with
\* a pending status leaves it as it was); `invoked` is how many of these polls
\* asked a workflow runner, `sent` being the requests of the poll's check.
observe_statuses(h, pr, fetched, sent) ==
    IF h = None THEN None
    ELSE LET r == Unwrap(h)
             same == r.streak_sha = pr.sha
             failed == \E i \in 1..Len(fetched.failed) :
                            fetched.failed[i].name \in DOMAIN status_failures_config
             asked == \E j \in 1..Len(sent) : sent[j].op = "process_failed_jobs"
             again == /\ r.count >= 0
                      /\ ~r.extended
                      /\ r.count = 0 \/ r.sha = pr.sha
                      /\ fetched.pending = <<>>
                      /\ \E i \in 1..Len(fetched.failed) :
                            fetched.failed[i].name \in DOMAIN status_failures_config
         IN  Some([previous_head |-> r.previous_head,
                   count |-> IF again THEN r.count + 1 ELSE -1,
                   extended |-> again,
                   sha |-> IF again THEN pr.sha ELSE r.sha,
                   results |-> r.results,
                   streak |-> IF fetched.pending # <<>>
                              THEN (IF same THEN r.streak ELSE 0)
                              ELSE IF failed
                                   THEN (IF same THEN r.streak ELSE 0) + 1
                                   ELSE 0,
                   invoked |-> (IF same THEN r.invoked ELSE 0)
                               + (IF failed /\ asked THEN 1 ELSE 0),
                   streak_sha |-> pr.sha])

observe_poll(h, pr) ==
    IF h = None THEN None
    ELSE LET r == Unwrap(h)
         IN  Some([previous_head |-> pr.sha,
                   count |-> IF r.extended THEN r.count ELSE -1,
                   extended |-> FALSE,
                   sha |-> r.sha,
                   results |-> None,
                   streak |-> r.streak,
                   invoked |-> r.invoked,
                   streak_sha |-> r.streak_sha])

\* The two sub-checks' results, as execute has them when both returned
observe_actions(h, statuses, actions) ==
    IF h = None \/ IsErr(actions) THEN h
    ELSE Some([Unwrap(h) EXCEPT !.results = Some(<<statuses, actions>>)])

config == <<steps, merger, reviews_config, status_failures_config, workflow_runners>>
pure == <<reviews, approvals, input, output, repo_map>>
build_failed == <<last_head_hash, status_failures, summaries, statuses_result>>

Init ==
    /\ steps \in {Director_build_steps, main_build_steps(TRUE), main_build_steps(FALSE)}
    /\ \/ /\ merger \in {DummyPullRequestMerger}
                          \cup {DefaultPullRequestMerger_new(m) : m \in MergeMethod}
          /\ reviews_config \in 0..MaxApprovals
          /\ status_failures_config = <<>>
          /\ workflow_runners = <<>>
       \/ /\ merger = DefaultPullRequestMerger_new(MergeConfig_default)
          /\ reviews_config = default_reviews_config
          /\ status_failures_config \in StatusFailuresConfigs
          /\ workflow_runners \in {<<>>, <<"CircleCiWorkflowRunner">>}
    /\ pc = "main_loop"
    /\ idx = 0
    /\ context = None
    /\ result = NoResult
    /\ executed = <<>>
    /\ requests = <<>>
    /\ review_locals = None
    /\ merge_result = None
    /\ last_head_hash = None
    /\ status_failures = <<>>
    /\ summaries = None
    /\ statuses_result = None
    /\ reviews = <<>>
    /\ approvals = None
    /\ input = None
    /\ output = None
    /\ history = None
    /\ repo_map = None

(***************************************************************************)
(* Director::run                                                           *)
(***************************************************************************)
\* run() returns `value` to its caller
Director_return(value) ==
    /\ result' = value
    /\ pc' = "main_match"

\* Mutant: a run after a waiting one skips the first step
Director_run_Resumes ==
    /\ pc = "main_loop"
    /\ \/ \E e \in ClientErrors :
            /\ requests' = Append(requests, Request("pull_request_info", "", e))
            /\ Director_return(ClientErr(e))
            /\ UNCHANGED <<idx, context>>
       \/ \E info \in PullRequest :
            /\ requests' = Append(requests, Request("pull_request_info", "", "ok"))
            /\ context' = Some(info)
            /\ idx' = IF result = Ok("Pending") THEN 2 ELSE 1
            /\ pc' = "step"
            /\ UNCHANGED result
    /\ UNCHANGED <<config, pure, history, build_failed, executed, review_locals, merge_result>>

\* The start of run(): build_context, then the first step
Director_run ==
    /\ pc = "main_loop"
    /\ \/ \E e \in ClientErrors :
            /\ requests' = Append(requests, Request("pull_request_info", "", e))
            /\ Director_return(ClientErr(e))
            /\ UNCHANGED <<idx, context>>
       \/ \E info \in PullRequest :
            /\ requests' = Append(requests, Request("pull_request_info", "", "ok"))
            /\ context' = Some(info)
            /\ idx' = 1
            /\ pc' = "step"
            /\ UNCHANGED result
    /\ UNCHANGED <<config, pure, history, build_failed, executed, review_locals, merge_result>>

\* Mutant: a waiting step is passed over
Director_match_WaitingContinues(step_status) ==
    /\ executed' = Append(executed, [step |-> steps[idx], status |-> step_status])
    /\ IF IsErr(step_status)
       THEN Director_return(step_status) /\ UNCHANGED idx
       ELSE /\ IF idx = Len(steps)
               THEN pc' = "merge" /\ UNCHANGED idx
               ELSE pc' = "step" /\ idx' = idx + 1
            /\ UNCHANGED result

\* Mutant: a step's error is answered like a waiting step, to be polled again
Director_match_ErrorWaits(step_status) ==
    /\ executed' = Append(executed, [step |-> steps[idx], status |-> step_status])
    /\ IF IsErr(step_status) \/ step_status.kind = "Waiting"
       THEN Director_return(Ok("Pending")) /\ UNCHANGED idx
       ELSE /\ IF idx = Len(steps)
               THEN pc' = "merge" /\ UNCHANGED idx
               ELSE pc' = "step" /\ idx' = idx + 1
            /\ UNCHANGED result

\* The body of run()'s loop once steps[idx] answered step_status: `?` and the match
Director_match(step_status) ==
    /\ executed' = Append(executed, [step |-> steps[idx], status |-> step_status])
    /\ IF IsErr(step_status)
       THEN Director_return(step_status) /\ UNCHANGED idx
       ELSE CASE step_status.kind = "CannotProceed" ->
                    Director_return(Ok("Done")) /\ UNCHANGED idx
              [] step_status.kind = "Waiting" ->
                    Director_return(Ok("Pending")) /\ UNCHANGED idx
              [] step_status.kind = "Passed" ->
                    /\ IF idx = Len(steps)
                       THEN pc' = "merge" /\ UNCHANGED idx
                       ELSE pc' = "step" /\ idx' = idx + 1
                    /\ UNCHANGED result

AtStep(name) == pc = "step" /\ steps[idx] = name

\* GitHub's answer to a merge request per method.  Only the methods the merger
\* gets to ask matter: the answer to a request that is never sent is fixed to
\* "ok" so that every behaviour is enumerated once.
MergeAnswers(methods) ==
    {answers \in [MergeMethod -> {"ok"} \cup ClientErrors] :
        \A m \in MergeMethod :
            (~\E i \in 1..Len(methods) :
                /\ methods[i] = m
                /\ \A j \in 1..(i - 1) : answers[methods[j]] = "METHOD_NOT_ALLOWED")
            => answers[m] = "ok"}

\* Mutant: the merger's error is dropped
Director_merge_AlwaysDone ==
    /\ pc = "merge"
    /\ \E answers \in MergeAnswers(merger.merge_methods) :
        LET merged == PullRequestMerger_merge(merger, answers, pull_request.sha)
        IN  /\ requests' = requests \o merged.requests
            /\ merge_result' = Some(merged.result)
            /\ Director_return(Ok("Done"))
    /\ UNCHANGED <<config, pure, history, build_failed, idx, context, executed, review_locals>>

\* The end of run(): every step passed
Director_merge ==
    /\ pc = "merge"
    /\ \E answers \in MergeAnswers(merger.merge_methods) :
        LET merged == PullRequestMerger_merge(merger, answers, pull_request.sha)
        IN  /\ requests' = requests \o merged.requests
            /\ merge_result' = Some(merged.result)
            /\ IF IsErr(merged.result)
               THEN Director_return(merged.result)
               ELSE Director_return(Ok("Done"))
    /\ UNCHANGED <<config, pure, history, build_failed, idx, context, executed, review_locals>>

(***************************************************************************)
(* The steps' execute                                                      *)
(***************************************************************************)
CheckCurrentStateStep_execute ==
    /\ AtStep("CheckCurrentStateStep")
    /\ Director_match(CheckCurrentStateStep_status(pull_request))
    /\ review_locals' = None
    /\ UNCHANGED merge_result
    /\ UNCHANGED <<config, pure, history, build_failed, context, requests>>

CheckReviewsStep_execute ==
    /\ AtStep("CheckReviewsStep")
    /\ \E protection_answer \in {Answer(n) : n \in 0..MaxApprovals} \cup Failures,
          reviews_answer \in {Answer(l) : l \in SeqsUpTo(PolledReview, MaxPipelineReviews)}
                                \cup Failures :
        LET protected == fetch_branch_protection(protection_answer)
        IN  \* the reviews are only asked for once the protection is known
            /\ IsErr(protected) => reviews_answer = Failure("NOT_FOUND")
            /\ review_locals' = Some(CheckReviewsStep_locals(protection_answer, reviews_answer))
            /\ requests' = requests \o
                    (IF IsErr(protected)
                     THEN <<Request("branch_protection", "", AnswerOf(protection_answer))>>
                     ELSE <<Request("branch_protection", "", AnswerOf(protection_answer)),
                            Request("pull_request_reviews", "", AnswerOf(reviews_answer))>>)
            /\ Director_match(CheckReviewsStep_status(protection_answer, reviews_answer))
    /\ UNCHANGED <<config, pure, history, build_failed, context, merge_result>>

CheckBehindMaster_execute ==
    /\ AtStep("CheckBehindMaster")
    /\ IF pull_request.mergeable_state # "Behind"
       THEN /\ Director_match(Passed)
            /\ UNCHANGED requests
       ELSE \E update_answer \in {Answer(NoBody)} \cup Failures :
            /\ requests' = Append(requests,
                                  RequestAt("update_branch", "", pull_request.sha,
                                            AnswerOf(update_answer)))
            /\ Director_match(CheckBehindMaster_status(update_answer))
    /\ review_locals' = None
    /\ UNCHANGED merge_result
    /\ UNCHANGED <<config, pure, history, build_failed, context>>

\* Mutant: the head sha bookkeeping comes before the test for Blocked
CheckBuildFailed_execute_ResetsFirst ==
    /\ AtStep("CheckBuildFailed")
    /\ IF pull_request.mergeable_state # "Blocked"
       THEN /\ Director_match(Passed)
            /\ last_head_hash' = Some(pull_request.sha)
            /\ status_failures' =
                    IF last_head_hash # Some(pull_request.sha) /\ IsSome(last_head_hash)
                    THEN <<>> ELSE status_failures
            /\ UNCHANGED <<summaries, statuses_result, requests>>
       ELSE /\ last_head_hash' = Some(pull_request.sha)
            /\ status_failures' =
                    IF last_head_hash # Some(pull_request.sha) /\ IsSome(last_head_hash)
                    THEN <<>> ELSE status_failures
            /\ UNCHANGED statuses_result
            /\ \/ \E e \in ClientErrors :
                    /\ requests' = Append(requests, Request("pull_request_statuses", "", e))
                    /\ Director_match(ClientErr(e))
                    /\ UNCHANGED summaries
               \/ \E statuses \in SeqsUpTo(Status, MaxStatuses) :
                  \E order \in Perms(DOMAIN last_run_per_status(statuses)) :
                    LET fetched == fetch_status_summaries(statuses, order)
                    IN  /\ requests' = Append(requests,
                                              Request("pull_request_statuses", "", "ok"))
                        /\ IF IsErr(fetched.result)
                           THEN /\ Director_match(fetched.result)
                                /\ UNCHANGED summaries
                           ELSE /\ summaries' = Some([pending |-> fetched.pending,
                                                      failed |-> fetched.failed])
                                /\ pc' = "check_statuses"
                                /\ UNCHANGED <<idx, result, executed>>
    /\ review_locals' = None
    /\ UNCHANGED merge_result
    /\ UNCHANGED <<config, pure, history, context>>

\* CheckBuildFailed::execute up to the answer to check_statuses' fetch: the
\* early return, the head sha bookkeeping and fetch_status_summaries
CheckBuildFailed_execute ==
    /\ AtStep("CheckBuildFailed")
    /\ IF pull_request.mergeable_state # "Blocked"
       THEN /\ Director_match(Passed)
            /\ UNCHANGED <<build_failed, requests>>
       ELSE /\ last_head_hash' = Some(pull_request.sha)
            /\ status_failures' =
                    IF last_head_hash # Some(pull_request.sha) /\ IsSome(last_head_hash)
                    THEN <<>> ELSE status_failures
            /\ UNCHANGED statuses_result
            /\ \/ \E e \in ClientErrors :
                    /\ requests' = Append(requests, Request("pull_request_statuses", "", e))
                    /\ Director_match(ClientErr(e))
                    /\ UNCHANGED summaries
               \/ \E statuses \in SeqsUpTo(Status, MaxStatuses) :
                  \E order \in Perms(DOMAIN last_run_per_status(statuses)) :
                    LET fetched == fetch_status_summaries(statuses, order)
                    IN  /\ requests' = Append(requests,
                                              Request("pull_request_statuses", "", "ok"))
                        /\ IF IsErr(fetched.result)
                           THEN /\ Director_match(fetched.result)
                                /\ UNCHANGED summaries
                           ELSE /\ summaries' = Some([pending |-> fetched.pending,
                                                      failed |-> fetched.failed])
                                /\ pc' = "check_statuses"
                                /\ UNCHANGED <<idx, result, executed>>
    /\ review_locals' = None
    /\ UNCHANGED merge_result
    /\ UNCHANGED <<config, pure, history, context>>

\* CircleCI's answers to the job_info requests the failed statuses can lead to:
\* the answer for a job no failed status points at is never asked for.
JobAnswers(failed) ==
    LET asked == {job_id(failed[i].url) :
                    i \in {k \in 1..Len(failed) :
                            failed[k].url \in {"circleci_job1", "circleci_job2"}}}
    IN  {job_info \in [Jobs -> WorkflowIds \cup {"error"}] :
            \A j \in Jobs \ asked : job_info[j] = "w1"}

\* Mutant: a waiting status check ends the step, the actions are not looked at
CheckBuildFailed_check_statuses_ShortCircuits ==
    /\ pc = "check_statuses"
    /\ \E job_info \in JobAnswers(Unwrap(summaries).failed) :
       LET urls == [i \in 1..Len(Unwrap(summaries).failed) |-> Unwrap(summaries).failed[i].url]
           ids == gather_failed_workflow_ids(urls, job_info, {}, <<>>).ids
       IN  \E order \in Perms(ids), failing \in SUBSET ids :
           \E checked \in {check_statuses(Unwrap(summaries), status_failures,
                                          job_info, order, failing)} :
               /\ status_failures' = checked.failures
               /\ requests' = requests \o checked.requests
               /\ summaries' = None
               /\ history' = observe_statuses(history, pull_request, Unwrap(summaries),
                                               checked.requests)
               /\ IF IsErr(checked.result) \/ checked.result = Waiting
                  THEN /\ Director_match(checked.result)
                       /\ UNCHANGED statuses_result
                  ELSE /\ statuses_result' = Some(checked.result)
                       /\ pc' = "check_actions"
                       /\ UNCHANGED <<idx, result, executed>>
    /\ UNCHANGED <<config, pure, context, review_locals, merge_result, last_head_hash>>

\* check_statuses after its fetch, with process_failed_statuses and the runners
CheckBuildFailed_check_statuses ==
    /\ pc = "check_statuses"
    /\ \E job_info \in JobAnswers(Unwrap(summaries).failed) :
       LET urls == [i \in 1..Len(Unwrap(summaries).failed) |-> Unwrap(summaries).failed[i].url]
           ids == gather_failed_workflow_ids(urls, job_info, {}, <<>>).ids
       IN  \E order \in Perms(ids), failing \in SUBSET ids :
           \E checked \in {check_statuses(Unwrap(summaries), status_failures,
                                          job_info, order, failing)} :
               /\ status_failures' = checked.failures
               /\ requests' = requests \o checked.requests
               /\ summaries' = None
               /\ history' = observe_statuses(history, pull_request, Unwrap(summaries),
                                               checked.requests)
               /\ IF IsErr(checked.result)
                  THEN /\ Director_match(checked.result)
                       /\ UNCHANGED statuses_result
                  ELSE /\ statuses_result' = Some(checked.result)
                       /\ pc' = "check_actions"
                       /\ UNCHANGED <<idx, result, executed>>
    /\ UNCHANGED <<config, pure, context, review_locals, merge_result, last_head_hash>>

\* check_actions and the end of execute
CheckBuildFailed_check_actions ==
    /\ pc = "check_actions"
    /\ statuses_result' = None
    /\ \/ \E e \in ClientErrors :
            /\ requests' = Append(requests, Request("action_runs", "", e))
            /\ Director_match(ClientErr(e))
            /\ UNCHANGED history
       \/ \E list \in SeqsUpTo(WorkflowRun, MaxActionRuns) :
          LET workflow_runs == with_ids(list)
              last == last_run_per_workflow(workflow_runs, pull_request.sha)
          IN  \E order \in Perms(DOMAIN last),
                 failing \in SUBSET {last[w].id : w \in {v \in DOMAIN last :
                                                         last[v].conclusion = "Failure"}} :
              LET split_runs == fetch_action_runs(workflow_runs, pull_request.sha, order)
                  checked == check_actions(split_runs, failing)
              IN  /\ requests' = Append(requests, Request("action_runs", "", "ok"))
                                    \o checked.requests
                  /\ history' = observe_actions(history, Unwrap(statuses_result),
                                                 checked.result)
                  /\ IF IsErr(checked.result)
                     THEN Director_match(checked.result)
                     ELSE Director_match(CheckBuildFailed_combine(
                              Unwrap(statuses_result), checked.result, pull_request))
    /\ UNCHANGED <<config, pure, context, review_locals, merge_result, last_head_hash,
                   status_failures, summaries>>

(***************************************************************************)
(* main's loop                                                             *)
(***************************************************************************)
\* Ok(DirectorState::Waiting): sleep, then the next iteration
main_sleep ==
    /\ pc = "main_match"
    /\ result = Ok("Pending")
    /\ pc' = "main_loop"
    /\ idx' = 0
    /\ context' = None
    /\ executed' = <<>>
    /\ requests' = <<>>
    /\ review_locals' = None
    /\ merge_result' = None
    /\ history' = observe_poll(history, pull_request)
    /\ UNCHANGED <<config, pure, build_failed, result>>

\* Mutant: an error restarts the loop
main_break_Restarts ==
    /\ pc = "main_match"
    /\ result = Ok("Done") \/ IsErr(result)
    /\ pc' = IF IsErr(result) THEN "main_loop" ELSE "exit"
    /\ idx' = 0
    /\ context' = None
    /\ executed' = <<>>
    /\ requests' = <<>>
    /\ review_locals' = None
    /\ merge_result' = None
    /\ UNCHANGED <<config, pure, history, build_failed, result>>

\* Ok(DirectorState::Done) and Err(e): break
main_break ==
    /\ pc = "main_match"
    /\ result = Ok("Done") \/ IsErr(result)
    /\ pc' = "exit"
    /\ idx' = 0
    /\ context' = None
    /\ executed' = <<>>
    /\ requests' = <<>>
    /\ review_locals' = None
    /\ merge_result' = None
    /\ UNCHANGED <<config, pure, history, build_failed, result>>

Director_step ==
    \/ CheckCurrentStateStep_execute
    \/ CheckReviewsStep_execute
    \/ CheckBehindMaster_execute
    \/ CheckBuildFailed_execute
    \/ CheckBuildFailed_check_statuses
    \/ CheckBuildFailed_check_actions

Next ==
    \/ Director_run
    \/ Director_step
    \/ Director_merge
    \/ main_sleep
    \/ main_break

Spec == Init /\ [][Next]_vars

-----------------------------------------------------------------------------
\* The polls of a pull request whose statuses have a failure threshold: main's
\* pipeline without the reviews step, the polls so far recorded in `history`.

InitPolls ==
    /\ steps = main_build_steps(TRUE)
    /\ merger = DummyPullRequestMerger
    /\ reviews_config = default_reviews_config
    /\ status_failures_config \in {[c \in {"a"} |-> n] : n \in 1..MaxThreshold}
    /\ workflow_runners \in {<<>>, <<"CircleCiWorkflowRunner">>}
    /\ pc = "main_loop"
    /\ idx = 0
    /\ context = None
    /\ result = NoResult
    /\ executed = <<>>
    /\ requests = <<>>
    /\ review_locals = None
    /\ merge_result = None
    /\ last_head_hash = None
    /\ status_failures = <<>>
    /\ summaries = None
    /\ statuses_result = None
    /\ reviews = <<>>
    /\ approvals = None
    /\ input = None
    /\ output = None
    /\ history = Some(NoHistory)
    /\ repo_map = None

NextPolls ==
    \/ Director_run
    \/ CheckCurrentStateStep_execute
    \/ CheckBehindMaster_execute
    \/ CheckBuildFailed_execute
    \/ CheckBuildFailed_check_statuses
    \/ CheckBuildFailed_check_actions
    \/ Director_merge
    \/ main_sleep
    \/ main_break

SpecPolls == InitPolls /\ [][NextPolls]_vars

-----------------------------------------------------------------------------
\* The two sub-checks of CheckBuildFailed on their own, over every list GitHub
\* can answer with: runs carry the ids GitHub gave them in the order of their
\* creation, statuses their created_at, in whatever order the list has them.

\* up to `max` long
ListedRuns(max) ==
    UNION {{[i \in 1..n |-> [id |-> p[i], workflow_id |-> l[i].workflow_id,
                             head_sha |-> l[i].head_sha,
                             conclusion |-> l[i].conclusion]] :
                l \in [1..n -> WorkflowRun], p \in Perms(1..n)} : n \in 0..max}

ListedUrls == {"other", "circleci_job1", "circleci_job2"}

ListedStatuses(max) ==
    UNION {{[i \in 1..n |-> [context |-> l[i].context, state |-> l[i].state,
                             target_url |-> l[i].target_url, created_at |-> p[i]]] :
                l \in [1..n -> [context : Contexts, state : StatusState,
                                target_url : ListedUrls]],
                p \in Perms(1..n)} : n \in 0..max}

InitBuild ==
    /\ steps = main_build_steps(TRUE)
    /\ merger = DummyPullRequestMerger
    /\ reviews_config = default_reviews_config
    /\ workflow_runners = <<"CircleCiWorkflowRunner">>
    /\ idx = 0
    /\ context = None
    /\ result = NoResult
    /\ executed = <<>>
    /\ requests = <<>>
    /\ review_locals = None
    /\ merge_result = None
    /\ last_head_hash = None
    /\ summaries = None
    /\ statuses_result = None
    /\ reviews = <<>>
    /\ approvals = None
    /\ output = None
    /\ history = None
    /\ repo_map = None
    /\ \/ /\ pc = "check_actions"
          /\ status_failures_config = [c \in {"a"} |-> MaxThreshold]
          /\ status_failures = <<>>
          /\ \E workflow_runs \in ListedRuns(MaxListedRuns) :
                input = Some([workflow_runs |-> workflow_runs, sha |-> "sha1"])
       \/ /\ pc = "check_statuses"
          /\ \E statuses \in ListedStatuses(MaxListedStatuses) :
             \E start \in {<<[c \in {"a"} |-> MaxThreshold], <<>>>>,
                           <<[c \in {"a"} |-> MaxThreshold], [c \in {"a"} |-> 1]>>,
                           <<[c \in Contexts |-> MaxThreshold], [c \in {"a"} |-> 1]>>} :
                /\ status_failures_config = start[1]
                /\ status_failures = start[2]
                /\ input = Some([statuses |-> statuses, failures |-> start[2]])

\* check_actions on the listed runs
check_actions_call ==
    /\ pc = "check_actions"
    /\ IsSome(input)
    /\ LET workflow_runs == Unwrap(input).workflow_runs
           sha == Unwrap(input).sha
       IN  \E order \in Perms(DOMAIN last_run_per_workflow(workflow_runs, sha)),
              failing \in SUBSET {workflow_runs[i].id : i \in 1..Len(workflow_runs)} :
           \E checked \in {check_actions(fetch_action_runs(workflow_runs, sha, order),
                                         failing)} :
               /\ requests' = checked.requests
               /\ output' = Some([result |-> checked.result, order |-> order,
                                  failing |-> failing])
    /\ pc' = "check_actions_returned"
    /\ UNCHANGED <<config, build_failed, idx, context, result, executed,
                   review_locals, merge_result, reviews, approvals, input, history, repo_map>>

\* check_statuses on the listed statuses; both CircleCI jobs belong to the
\* workflow w1 and its re-run is accepted
check_statuses_call ==
    /\ pc = "check_statuses"
    /\ IsSome(input)
    /\ LET statuses == Unwrap(input).statuses
           job_info == [j \in Jobs |-> "w1"]
       IN  \E order \in Perms(DOMAIN last_run_per_status(statuses)) :
           \E fetched \in {fetch_status_summaries(statuses, order)} :
               IF IsErr(fetched.result)
               THEN /\ output' = Some([result |-> fetched.result, order |-> order])
                    /\ UNCHANGED <<status_failures, requests>>
               ELSE \E checked \in {check_statuses(fetched, status_failures, job_info,
                                                   <<"w1">>, {})} :
                        /\ status_failures' = checked.failures
                        /\ requests' = checked.requests
                        /\ output' = Some([result |-> checked.result, order |-> order])
    /\ pc' = "check_statuses_returned"
    /\ UNCHANGED <<config, last_head_hash, summaries, statuses_result, idx, context, result,
                   executed, review_locals, merge_result, reviews, approvals, input,
                   history, repo_map>>

NextBuild ==
    \/ check_actions_call
    \/ check_statuses_call

SpecBuild == InitBuild /\ [][NextBuild]_vars

-----------------------------------------------------------------------------
\* CircleCiWorkflowRunner::process_failed_jobs on its own, over every list of
\* job URLs up to MaxJobUrls long and every answer of CircleCI

InitRunner ==
    /\ steps = main_build_steps(TRUE)
    /\ merger = DummyPullRequestMerger
    /\ reviews_config = default_reviews_config
    /\ status_failures_config = <<>>
    /\ workflow_runners = <<"CircleCiWorkflowRunner">>
    /\ pc = "process_failed_jobs"
    /\ idx = 0
    /\ context = None
    /\ result = NoResult
    /\ executed = <<>>
    /\ requests = <<>>
    /\ review_locals = None
    /\ merge_result = None
    /\ last_head_hash = None
    /\ status_failures = <<>>
    /\ summaries = None
    /\ statuses_result = None
    /\ reviews = <<>>
    /\ approvals = None
    /\ \E job_urls \in SeqsUpTo(TargetUrls \ {"invalid"}, MaxJobUrls) :
            input = Some([job_urls |-> job_urls])
    /\ output = None
    /\ history = None
    /\ repo_map = None

process_failed_jobs_call ==
    /\ pc = "process_failed_jobs"
    /\ IsSome(input)
    /\ \E job_info \in [Jobs -> WorkflowIds \cup {"error"}] :
       \E gathered \in {gather_failed_workflow_ids(Unwrap(input).job_urls, job_info,
                                                   {}, <<>>)} :
       \E order \in Perms(gathered.ids), failing \in SUBSET gathered.ids :
       \E ran \in {CircleCiWorkflowRunner_process_failed_jobs(
                        Unwrap(input).job_urls, job_info, order, failing)} :
            /\ requests' = ran.requests
            /\ output' = Some([result |-> ran.result, job_info |-> job_info,
                               failing |-> failing])
    /\ pc' = "process_failed_jobs_returned"
    /\ UNCHANGED <<config, build_failed, idx, context, result, executed,
                   review_locals, merge_result, reviews, approvals, input, history, repo_map>>

NextRunner == process_failed_jobs_call

SpecRunner == InitRunner /\ [][NextRunner]_vars

-----------------------------------------------------------------------------
\* A RepoMap on its own: inserts of values 1..MaxConfigValue into a map whose
\* default is 0, and lookups

InitRepoMap ==
    /\ steps = main_build_steps(TRUE)
    /\ merger = DummyPullRequestMerger
    /\ reviews_config = default_reviews_config
    /\ status_failures_config = <<>>
    /\ workflow_runners = <<>>
    /\ pc = "split_repo_configs"
    /\ idx = 0
    /\ context = None
    /\ result = NoResult
    /\ executed = <<>>
    /\ requests = <<>>
    /\ review_locals = None
    /\ merge_result = None
    /\ last_head_hash = None
    /\ status_failures = <<>>
    /\ summaries = None
    /\ statuses_result = None
    /\ reviews = <<>>
    /\ approvals = None
    /\ input = None
    /\ output = None
    /\ history = None
    /\ repo_map = Some(RepoMap_new(0))

RepoMap_insert_call ==
    /\ pc = "split_repo_configs"
    /\ \E repo \in RepoIdentifier, value \in 1..MaxConfigValue :
       \E inserted \in {RepoMap_insert(Unwrap(repo_map), repo, value)} :
            /\ repo_map' = Some(inserted.map)
            /\ output' = Some([op |-> "insert", repo |-> repo, value |-> value,
                               result |-> inserted.result])
    /\ UNCHANGED <<config, build_failed, pc, idx, context, result, executed, requests,
                   review_locals, merge_result, reviews, approvals, input, history>>

RepoMap_get_call ==
    /\ pc = "split_repo_configs"
    /\ \E owner \in Owners \cup {"unrelated"}, repo \in RepoNames \cup {"foo", "*"} :
            output' = Some([op |-> "get", owner |-> owner, repo |-> repo,
                            value |-> RepoMap_get(Unwrap(repo_map), owner, repo)])
    /\ UNCHANGED <<config, build_failed, pc, idx, context, result, executed, requests,
                   review_locals, merge_result, reviews, approvals, input, history,
                   repo_map>>

NextRepoMap ==
    \/ RepoMap_insert_call
    \/ RepoMap_get_call

SpecRepoMap == InitRepoMap /\ [][NextRepoMap]_vars

-----------------------------------------------------------------------------
\* compute_approvals on its own: every review list up to MaxReviews long

InitApprovals ==
    /\ steps = Director_build_steps
    /\ merger = DummyPullRequestMerger
    /\ reviews_config = default_reviews_config
    /\ status_failures_config = <<>>
    /\ workflow_runners = <<>>
    /\ pc = "compute_approvals"
    /\ idx = 0
    /\ context = None
    /\ result = NoResult
    /\ executed = <<>>
    /\ requests = <<>>
    /\ review_locals = None
    /\ merge_result = None
    /\ last_head_hash = None
    /\ status_failures = <<>>
    /\ summaries = None
    /\ statuses_result = None
    /\ reviews \in SeqsUpTo(PullRequestReview, MaxReviews)
    /\ approvals = None
    /\ input = None
    /\ output = None
    /\ history = None
    /\ repo_map = None

compute_approvals_call ==
    /\ pc = "compute_approvals"
    /\ approvals' = Some(compute_approvals(reviews))
    /\ pc' = "computed"
    /\ UNCHANGED <<config, build_failed, idx, context, result, executed, requests,
                   review_locals, merge_result, reviews, input, output, history, repo_map>>

NextApprovals == compute_approvals_call

SpecApprovals == InitApprovals /\ [][NextApprovals]_vars

-----------------------------------------------------------------------------
\* Properties

InRun == pc \in {"step", "check_statuses", "check_actions", "merge"}

RequestsTo(op) == {i \in 1..Len(requests) : requests[i].op = op}

AllPassed ==
    /\ Len(executed) = Len(steps)
    /\ \A i \in 1..Len(executed) : executed[i].status = Passed

EntriesOf(name) == {i \in 1..Len(executed) : executed[i].step = name}

\* C1: steps execute in the pipeline's order, a step runs only after every
\* earlier one passed, and the first step that answers Waiting ends the run:
\* it is the last step executed, the run returns the waiting state, and no
\* merge is attempted.
C1_WaitingEndsRun ==
    /\ Len(executed) <= Len(steps)
    /\ \A i \in 1..Len(executed) :
        /\ executed[i].step = steps[i]
        /\ i < Len(executed) => executed[i].status = Passed
        /\ executed[i].status = Waiting =>
            /\ i = Len(executed)
            /\ pc = "main_match"
            /\ result = Ok("Pending")
            /\ merge_result = None
            /\ RequestsTo("merge_pull_request") = {}

C1_Witness ==
    /\ pc = "main_match"
    /\ Len(executed) >= 2
    /\ Len(executed) < Len(steps)
    /\ executed[Len(executed)].status = Waiting
    /\ result = Ok("Pending")

\* C2: the merger is invoked in a run exactly when every step of the pipeline
\* returned Passed in that run; the run returns Done only after the merger
\* succeeded, and a merger error is what the run returns.
C2_MergeIffAllPassed ==
    /\ IsSome(merge_result) => AllPassed
    /\ RequestsTo("merge_pull_request") # {} => IsSome(merge_result)
    /\ (pc = "main_match" /\ AllPassed) => IsSome(merge_result)
    /\ (pc = "main_match" /\ result = Ok("Done")) => merge_result = Some(Ok("()"))
    /\ (IsSome(merge_result) /\ IsErr(Unwrap(merge_result))) =>
            pc = "main_match" /\ result = Unwrap(merge_result)

C2_Witness ==
    /\ pc = "main_match"
    /\ result = Ok("Done")
    /\ merger.kind = "Default"
    /\ RequestsTo("merge_pull_request") # {}
    /\ AllPassed

\* C3: a step that returns an error ends the run: it is the last step
\* executed, it was executed once, no merge request is sent, and the run
\* returns that error.
C3_StepErrorAborts ==
    \A i \in 1..Len(executed) :
        IsErr(executed[i].status) =>
            /\ i = Len(executed)
            /\ Cardinality(EntriesOf(executed[i].step)) = 1
            /\ pc = "main_match"
            /\ result = executed[i].status
            /\ merge_result = None
            /\ RequestsTo("merge_pull_request") = {}

C3_Witness ==
    /\ pc = "main_match"
    /\ Len(executed) >= 2
    /\ Len(executed) < Len(steps)
    /\ IsErr(executed[Len(executed)].status)
    /\ result = executed[Len(executed)].status

\* C4: every run first fetches one snapshot of the pull request and then runs
\* the pipeline from its first step whatever earlier runs returned: the steps
\* executed so far are exactly the first steps of the pipeline, each once, and
\* the snapshot does not change during the run.
C4_State ==
    /\ (InRun \/ pc = "main_match") =>
            /\ requests # <<>>
            /\ requests[1].op = "pull_request_info"
            /\ RequestsTo("pull_request_info") = {1}
    /\ InRun => IsSome(context) /\ requests[1].answer = "ok"
    /\ pc \in {"step", "check_statuses", "check_actions"} => Len(executed) = idx - 1
    /\ pc = "merge" => Len(executed) = Len(steps)
    /\ \A i \in 1..Len(executed) : executed[i].step = steps[i]
    /\ \A i, j \in 1..Len(executed) : executed[i].step = executed[j].step => i = j

C4_FreshRun ==
    [][/\ (pc = "main_loop" /\ pc' = "step") =>
            idx' = 1 /\ executed' = <<>> /\ IsSome(context') /\ context = None
       /\ (InRun /\ pc' # "exit" /\ pc' # "main_loop") => context' = context]_vars

C4_RunsStartAfresh == []C4_State /\ C4_FreshRun

C4_Witness ==
    /\ pc = "step"
    /\ idx = 2
    /\ result = Ok("Pending")
    /\ executed = <<[step |-> steps[1], status |-> Passed]>>

\* C5: the poll loop invokes the director again exactly when the previous run
\* returned the waiting state, and stops for good once a run returned Done or
\* an error; a run starts only when none is in progress.
C5_PollLoop ==
    [][/\ pc' = "main_loop" => pc = "main_match" /\ result = Ok("Pending")
       /\ (pc = "main_match" /\ result = Ok("Pending")) => pc' = "main_loop"
       /\ (pc = "main_match" /\ result # Ok("Pending")) =>
                pc' = "exit" /\ (result = Ok("Done") \/ IsErr(result))
       /\ pc # "exit"
       /\ (pc' = "step" /\ pc # "step") => pc = "main_loop" /\ idx' = 1]_vars

C5_Witness ==
    /\ pc = "exit"
    /\ result = Ok("Done")
    /\ IsSome(last_head_hash)

\* C6: the current-state step passes exactly when the pull request is open,
\* not a draft and not in conflict (Dirty); every other snapshot is an error
\* (draft, conflicts, merged, closed, unknown state), never Waiting, and the
\* step sends no request.
C6_CurrentState ==
    Len(executed) >= 1 =>
        LET pr == pull_request
            st == executed[1].status
        IN  /\ executed[1].step = "CheckCurrentStateStep"
            /\ st = Passed <=>
                    (pr.state = "Open" /\ ~pr.draft /\ pr.mergeable_state # "Dirty")
            /\ st # Waiting
            /\ st # Passed => IsErr(st)
            /\ (pr.state = "Open" /\ pr.draft) => IsErr(st)
            /\ (pr.state = "Open" /\ pr.mergeable_state = "Dirty") => IsErr(st)
            /\ (pr.state = "Closed" /\ pr.merged) =>
                    st = as_generic("pull request is already merged")
            /\ (pr.state = "Closed" /\ ~pr.merged) =>
                    st = as_generic("pull request is closed")
            /\ pr.state = "Unknown" => IsErr(st)
            /\ Len(executed) = 1 => Len(requests) = 1

C6_Witness ==
    /\ pc = "main_match"
    /\ Len(executed) = 1
    /\ pull_request.state = "Closed"
    /\ pull_request.merged
    /\ result = as_generic("pull request is already merged")

\* The reviewers whose last Approved, ChangesRequested or Dismissed review in
\* list order is Approved
Decisive == {"Approved", "ChangesRequested", "Dismissed"}

ApprovingReviewers(list) ==
    {u \in Users :
        \E i \in 1..Len(list) :
            /\ list[i].user = u
            /\ list[i].state = "Approved"
            /\ \A j \in (i + 1)..Len(list) :
                    list[j].user = u => list[j].state \notin Decisive}

\* C7: compute_approvals returns the number of distinct reviewers whose last
\* Approved, ChangesRequested or Dismissed review, in list order, is Approved;
\* reviews in other states leave a reviewer's standing as it was.
C7_ComputeApprovals ==
    pc = "computed" =>
        approvals = Some(Cardinality(ApprovingReviewers(reviews)))

C7_Witness ==
    /\ pc = "computed"
    /\ reviews = <<[user |-> "bob", state |-> "Approved"],
                   [user |-> "bob", state |-> "ChangesRequested"],
                   [user |-> "bob", state |-> "Approved"]>>
    /\ approvals = Some(1)

\* C8: the approvals needed are the larger of the branch protection's count
\* and the configured count; a protection fetch answered 404 counts as a
\* protection requiring 0 approvals, and any other failure of that fetch is the
\* step's error.
C8_Threshold ==
    IsSome(review_locals) =>
        LET l == Unwrap(review_locals)
            a == l.protection_answer
            last == executed[Len(executed)]
            required == IF a.ok THEN Unwrap(a.value) ELSE 0
        IN  /\ last.step = "CheckReviewsStep"
            /\ (a.ok \/ a.error = "NOT_FOUND") =>
                    /\ l.approvals_needed = Some(Max(required, reviews_config))
                    /\ IsSome(l.total_users_approved) =>
                        (last.status = Passed <=>
                            Unwrap(l.total_users_approved) >= Max(required, reviews_config))
            /\ (~a.ok /\ a.error # "NOT_FOUND") =>
                    /\ l.approvals_needed = None
                    /\ last.status = ClientErr(a.error)
                    /\ pc = "main_match"
                    /\ result = ClientErr(a.error)

C8_Witness ==
    /\ IsSome(review_locals)
    /\ Unwrap(review_locals).protection_answer = Failure("NOT_FOUND")
    /\ reviews_config = 1
    /\ Unwrap(review_locals).approvals_needed = Some(1)
    /\ executed[Len(executed)].status = Passed

\* C9: the reviews step passes when the approvals counted reach the approvals
\* needed and is an error when they do not; it never answers Waiting, so too
\* few approvals end the run and the poll loop.
C9_ReviewsPassOrFail ==
    IsSome(review_locals) =>
        LET l == Unwrap(review_locals)
            last == executed[Len(executed)]
        IN  /\ last.step = "CheckReviewsStep"
            /\ last.status # Waiting
            /\ (IsSome(l.approvals_needed) /\ IsSome(l.total_users_approved)) =>
                IF Unwrap(l.total_users_approved) >= Unwrap(l.approvals_needed)
                THEN last.status = Passed
                ELSE /\ last.status = as_generic("not enough approvals")
                     /\ pc = "main_match"
                     /\ result = last.status
                     /\ ~ENABLED main_sleep

C9_Witness ==
    /\ IsSome(review_locals)
    /\ IsSome(Unwrap(review_locals).total_users_approved)
    /\ Unwrap(Unwrap(review_locals).total_users_approved) = 0
    /\ Unwrap(review_locals).approvals_needed = Some(1)
    /\ pc = "main_match"
    /\ IsErr(result)

\* C10: the behind-base step passes without a request when the snapshot is not
\* Behind; when it is Behind the step sends exactly one update-branch request
\* and never passes: an accepted update answers Waiting, which ends the run
\* with the waiting state, no later step and no merge.
C10_BehindBase ==
    /\ EntriesOf("CheckBehindMaster") = {} => RequestsTo("update_branch") = {}
    /\ \A i \in EntriesOf("CheckBehindMaster") :
        LET st == executed[i].status
            updates == RequestsTo("update_branch")
        IN  IF pull_request.mergeable_state # "Behind"
            THEN st = Passed /\ updates = {}
            ELSE /\ Cardinality(updates) = 1
                 /\ \A j \in updates : requests[j].sha = pull_request.sha
                 /\ st # Passed
                 /\ (\A j \in updates : requests[j].answer = "ok") => st = Waiting
                 /\ st = Waiting =>
                        /\ i = Len(executed)
                        /\ pc = "main_match"
                        /\ result = Ok("Pending")
                        /\ merge_result = None
                        /\ RequestsTo("merge_pull_request") = {}

C10_Witness ==
    /\ pc = "main_match"
    /\ IsSome(context)
    /\ executed # <<>>
    /\ pull_request.mergeable_state = "Behind"
    /\ \E j \in RequestsTo("update_branch") : requests[j].answer = "ok"
    /\ executed[Len(executed)] = [step |-> "CheckBehindMaster", status |-> Waiting]
    /\ Len(executed) < Len(steps)
    /\ result = Ok("Pending")

\* C11: when the update-branch request fails with the Conflict or the
\* Unprocessable-Entity classification the behind-base step answers Waiting;
\* every other failure of that request is the step's error.
C11_ConflictOrUnprocessableWaits ==
    \A i \in EntriesOf("CheckBehindMaster") :
        \A j \in RequestsTo("update_branch") :
            /\ requests[j].answer \in {"CONFLICT", "UNPROCESSABLE_ENTITY"} =>
                    executed[i].status = Waiting
            /\ requests[j].answer \notin {"ok", "CONFLICT", "UNPROCESSABLE_ENTITY"} =>
                    executed[i].status = ClientErr(requests[j].answer)

CiRequests ==
    {"pull_request_statuses", "action_runs", "rerun_workflow", "process_failed_jobs",
     "job_info", "circleci_rerun_workflow"}

\* C12: the build step evaluates its CI sub-checks when the snapshot is Blocked
\* or Unstable, and passes without a fetch or re-run for every other state.
C12_BlockedOrUnstableEvaluates ==
    \A i \in EntriesOf("CheckBuildFailed") :
        IF pull_request.mergeable_state \in {"Blocked", "Unstable"}
        THEN RequestsTo("pull_request_statuses") # {}
        ELSE /\ executed[i].status = Passed
             /\ \A op \in CiRequests : RequestsTo(op) = {}

\* C20 as stated: whenever the build step evaluates CI (Blocked snapshot), both
\* the status sub-check and the actions sub-check are evaluated.
C20_BothAlwaysEvaluated ==
    \A i \in EntriesOf("CheckBuildFailed") :
        pull_request.mergeable_state = "Blocked" =>
            /\ RequestsTo("pull_request_statuses") # {}
            /\ RequestsTo("action_runs") # {}

C20_State ==
    /\ pc = "check_actions" =>
            /\ statuses_result \in {Some(Passed), Some(Waiting)}
            /\ RequestsTo("pull_request_statuses") # {}
            /\ RequestsTo("action_runs") = {}
    /\ \A i \in EntriesOf("CheckBuildFailed") :
            pull_request.mergeable_state = "Blocked" =>
                /\ Cardinality(RequestsTo("pull_request_statuses")) = 1
                /\ Cardinality(RequestsTo("action_runs")) <= 1
                /\ RequestsTo("action_runs") = {} => IsErr(executed[i].status)

C20_Step ==
    [][/\ pc = "check_statuses" =>
            \/ pc' = "check_actions" /\ statuses_result' \in {Some(Passed), Some(Waiting)}
            \/ pc' = "main_match" /\ IsErr(result') /\ RequestsTo("action_runs")' = {}
       /\ pc = "check_actions" =>
            pc' = "main_match" /\ Cardinality(RequestsTo("action_runs")') = 1]_vars

\* C20 (amended): when the build step evaluates CI the status sub-check is
\* evaluated first and, whether it answers Passed or Waiting, the actions
\* sub-check is evaluated too; only an error of the status sub-check ends the
\* step before the actions sub-check.
C20_ActionsUnlessStatusError == []C20_State /\ C20_Step

C20_Witness ==
    /\ pc = "main_match"
    /\ executed # <<>>
    /\ executed[Len(executed)] = [step |-> "CheckBuildFailed", status |-> Waiting]
    /\ \E j \in RequestsTo("process_failed_jobs") : requests[j].answer = "Triggered"
    /\ RequestsTo("action_runs") # {}

\* C13: whenever a poll's snapshot has a head sha other than the previous
\* poll's snapshot, the failure counters are empty before anything is counted
\* in that poll.
C13_ResetOnEveryHeadChange ==
    (/\ pc = "check_statuses"
     /\ IsSome(history)
     /\ Unwrap(history).previous_head \notin {"", pull_request.sha})
        => status_failures = <<>>

MaxFailuresError == as_generic("status check reached max failures")

RunnerTriggered ==
    \E j \in RequestsTo("process_failed_jobs") : requests[j].answer = "Triggered"

ActionsAnswered ==
    /\ \E j \in RequestsTo("action_runs") : requests[j].answer = "ok"
    /\ \A j \in RequestsTo("rerun_workflow") : requests[j].answer = "ok"

\* C14: a status with max_failures N found failed, none pending, on every poll
\* from the first under one head sha: the build step does not report the
\* threshold on polls 1..N-1 (it answers Waiting when the runner re-triggers
\* and the actions are answered) and fails with the threshold error on poll N.
C14_FailsOnNthPoll ==
    \A i \in EntriesOf("CheckBuildFailed") :
        (IsSome(history) /\ Unwrap(history).extended) =>
            LET k == Unwrap(history).count
                N == status_failures_config["a"]
            IN  /\ k >= 1 /\ k <= N
                /\ status_failures["a"] = k
                /\ k = N => executed[i].status = MaxFailuresError
                /\ k < N =>
                    /\ executed[i].status # MaxFailuresError
                    /\ (RunnerTriggered /\ ActionsAnswered) => executed[i].status = Waiting

C14_Witness ==
    /\ pc = "main_match"
    /\ IsSome(history)
    /\ status_failures_config = [c \in {"a"} |-> 2]
    /\ Unwrap(history).extended
    /\ Unwrap(history).count = 2
    /\ result = MaxFailuresError

\* Some failed status's counter reaches its threshold in this poll
ReachesThreshold ==
    \E i \in 1..Len(Unwrap(summaries).failed) :
        LET name == Unwrap(summaries).failed[i].name
        IN  /\ name \in DOMAIN status_failures_config
            /\ (IF name \in DOMAIN status_failures THEN status_failures[name] ELSE 0) + 1
                    >= status_failures_config[name]

RerunRequests ==
    {"process_failed_jobs", "job_info", "circleci_rerun_workflow", "rerun_workflow"}

C15_State ==
    (pc = "main_match" /\ result = MaxFailuresError) =>
        \A op \in RerunRequests : RequestsTo(op) = {}

C15_Step ==
    [][(/\ pc = "check_statuses"
        /\ Unwrap(summaries).pending = <<>>
        /\ ReachesThreshold)
            => /\ pc' = "main_match"
               /\ result' = MaxFailuresError
               /\ requests' = requests]_vars

\* C15: in a poll in which a failed status's counter reaches its threshold the
\* step fails before any runner is invoked: no re-run request is sent.
C15_ThresholdBeforeRerun == []C15_State /\ C15_Step

C15_Witness ==
    /\ pc = "main_match"
    /\ result = MaxFailuresError
    /\ workflow_runners # <<>>
    /\ RequestsTo("pull_request_statuses") # {}
    /\ status_failures = [c \in {"a"} |-> 2]

JobUrls == {"circleci_job1", "circleci_job2"}

\* C16: failed statuses, none pending, no threshold reached: every configured
\* runner is given the failed job URLs; the status sub-check answers Waiting
\* when a runner reports Triggered, and the step fails when none does, also
\* when no runner is configured.
C16_RunnersDecide ==
    [][(/\ pc = "check_statuses"
        /\ Unwrap(summaries).pending = <<>>
        /\ Unwrap(summaries).failed # <<>>
        /\ ~ReachesThreshold)
            => LET new == SubSeq(requests', Len(requests) + 1, Len(requests'))
                   calls == {j \in 1..Len(new) : new[j].op = "process_failed_jobs"}
                   asked == {new[j].arg : j \in {k \in 1..Len(new) : new[k].op = "job_info"}}
                   failed == Unwrap(summaries).failed
                   urls == {failed[i].url : i \in 1..Len(failed)}
               IN  /\ Cardinality(calls) = Len(workflow_runners)
                   /\ asked \subseteq urls
                   /\ (\E j \in calls : new[j].answer \in {"Triggered", "Success"}) =>
                            asked = urls \cap JobUrls
                   /\ (\E j \in calls : new[j].answer = "Triggered") =>
                            pc' = "check_actions" /\ statuses_result' = Some(Waiting)
                   /\ (\A j \in calls : new[j].answer = "Success") =>
                            /\ pc' = "main_match"
                            /\ result' =
                                as_generic("failed jobs belong to unknown external services")
                   /\ (\E j \in calls : new[j].answer = "error") =>
                            pc' = "main_match" /\ IsErr(result')]_vars

C16_Witness ==
    /\ pc = "check_actions"
    /\ statuses_result = Some(Waiting)
    /\ RunnerTriggered
    /\ \E j \in RequestsTo("job_info") : requests[j].arg \in JobUrls

\* The run kept for every workflow of the head sha: the first one listed
KeptRuns ==
    LET workflow_runs == Unwrap(input).workflow_runs
        Mine(i) == workflow_runs[i].head_sha = Unwrap(input).sha
    IN  {workflow_runs[i] : i \in {k \in 1..Len(workflow_runs) :
            /\ Mine(k)
            /\ \A j \in 1..(k - 1) :
                    ~(Mine(j) /\ workflow_runs[j].workflow_id = workflow_runs[k].workflow_id)}}

\* C17: over the runs kept for the head sha, one per workflow: a pending run
\* makes the actions sub-check Waiting with no re-run; failed runs and none
\* pending get one accepted re-run request each and Waiting; neither pending
\* nor failed is Passed with no re-run.
C17_ActionsSubCheck ==
    pc = "check_actions_returned" =>
        LET pending == {r \in KeptRuns : r.conclusion = "None"}
            failed == {r \in KeptRuns : r.conclusion = "Failure"}
            out == Unwrap(output)
        IN  /\ pending # {} => out.result = Waiting /\ requests = <<>>
            /\ (pending = {} /\ failed # {} /\ \A r \in failed : r.id \notin out.failing) =>
                    /\ out.result = Waiting
                    /\ Len(requests) = Cardinality(failed)
                    /\ \A i \in 1..Len(requests) :
                            requests[i].op = "rerun_workflow" /\ requests[i].answer = "ok"
                    /\ {requests[i].arg : i \in 1..Len(requests)} =
                            {ToString(r.id) : r \in failed}
            /\ (pending = {} /\ failed = {}) => out.result = Passed /\ requests = <<>>

C17_Witness ==
    /\ pc = "check_actions_returned"
    /\ Len(Unwrap(input).workflow_runs) = 2
    /\ Unwrap(output).result = Waiting
    /\ Len(requests) = 2
    /\ \A i \in 1..2 : requests[i].op = "rerun_workflow" /\ requests[i].answer = "ok"

\* The listed runs of the head sha without those an other listed run of the
\* same workflow and head sha was created after
NewestRuns(workflow_runs, sha) ==
    LET Newest(r) ==
            /\ r.head_sha = sha
            /\ \A j \in 1..Len(workflow_runs) :
                    (workflow_runs[j].head_sha = sha
                        /\ workflow_runs[j].workflow_id = r.workflow_id)
                        => workflow_runs[j].id <= r.id
    IN  SelectSeq(workflow_runs, Newest)

\* C18: the actions sub-check answers and re-runs as it would on the most
\* recently created run of every workflow alone: older runs, wherever they
\* are listed, change neither the outcome nor the set of re-runs.
C18_NewestRunDecides ==
    pc = "check_actions_returned" =>
        LET in == Unwrap(input)
            out == Unwrap(output)
            expected == check_actions(
                            fetch_action_runs(NewestRuns(in.workflow_runs, in.sha),
                                              in.sha, out.order),
                            out.failing)
        IN  /\ out.result = expected.result
            /\ {requests[i].arg : i \in 1..Len(requests)} =
                    {expected.requests[i].arg : i \in 1..Len(expected.requests)}

\* The listed statuses without those an other listed status of the same
\* context was created after
NewestStatuses(statuses) ==
    LET Newest(st) ==
            \A j \in 1..Len(statuses) :
                statuses[j].context = st.context => statuses[j].created_at <= st.created_at
    IN  SelectSeq(statuses, Newest)

\* C19: the status sub-check answers, counts and hands URLs to the runners as
\* it would on the most recently created status of every context alone.
C19_NewestStatusDecides ==
    pc = "check_statuses_returned" =>
        LET in == Unwrap(input)
            out == Unwrap(output)
            fetched == fetch_status_summaries(NewestStatuses(in.statuses), out.order)
            expected == IF IsErr(fetched.result)
                        THEN [result |-> fetched.result, failures |-> in.failures,
                              requests |-> <<>>]
                        ELSE check_statuses(fetched, in.failures, [j \in Jobs |-> "w1"],
                                            <<"w1">>, {})
        IN  /\ out.result = expected.result
            /\ status_failures = expected.failures
            /\ requests = expected.requests

UnknownReasonsError == as_generic("pull request is blocked for unknown reasons")

\* C21: for a Blocked snapshot whose two sub-checks returned, the build step
\* fails with "blocked for unknown reasons" when both are Passed and answers
\* Waiting for every other pair; it never answers Passed for a Blocked snapshot.
C21_BlockedNeverPasses ==
    \A i \in EntriesOf("CheckBuildFailed") :
        (IsSome(context) /\ pull_request.mergeable_state = "Blocked") =>
            /\ executed[i].status # Passed
            /\ (IsSome(history) /\ IsSome(Unwrap(history).results)) =>
                    LET both == Unwrap(Unwrap(history).results)
                    IN  executed[i].status =
                            IF both = <<Passed, Passed>> THEN UnknownReasonsError
                            ELSE Waiting

C21_Witness ==
    /\ pc = "main_match"
    /\ IsSome(history)
    /\ IsSome(context)
    /\ Unwrap(history).results = Some(<<Passed, Passed>>)
    /\ result = UnknownReasonsError
    /\ pull_request.mergeable_state = "Blocked"

\* The merge requests of the run, in the order they were sent
MergeRequests ==
    LET IsMerge(r) == r.op = "merge_pull_request"
    IN  SelectSeq(requests, IsMerge)

Merged == IsSome(merge_result) /\ merger.kind = "Default"

\* C22: the merger asks for the methods in the order of its list, which for
\* the default squash is squash, merge, rebase; a request that succeeds is the
\* last one sent and makes merge() succeed, also after rejected methods.
C22_FirstSuccessStops ==
    Merged =>
        /\ Len(MergeRequests) \in 1..Len(merger.merge_methods)
        /\ \A k \in 1..Len(MergeRequests) :
                /\ MergeRequests[k].arg = merger.merge_methods[k]
                /\ MergeRequests[k].answer = "ok" =>
                        k = Len(MergeRequests) /\ merge_result = Some(Ok("()"))
        /\ merger = DefaultPullRequestMerger_new("Squash") =>
                merger.merge_methods = <<"Squash", "Merge", "Rebase">>

C22_Witness ==
    /\ Merged
    /\ merger = DefaultPullRequestMerger_new("Squash")
    /\ Len(MergeRequests) = 2
    /\ MergeRequests[1].arg = "Squash" /\ MergeRequests[1].answer = "METHOD_NOT_ALLOWED"
    /\ MergeRequests[2].arg = "Merge" /\ MergeRequests[2].answer = "ok"
    /\ merge_result = Some(Ok("()"))

\* C24: a merge request that fails with anything but method-not-allowed is the
\* last one sent, and its error is what merge() returns.
C24_OtherFailureStops ==
    Merged =>
        \A k \in 1..Len(MergeRequests) :
            MergeRequests[k].answer \notin {"ok", "METHOD_NOT_ALLOWED"} =>
                /\ k = Len(MergeRequests)
                /\ merge_result = Some(ClientErr(MergeRequests[k].answer))

C24_Witness ==
    /\ Merged
    /\ Len(MergeRequests) = 2
    /\ MergeRequests[1].answer = "METHOD_NOT_ALLOWED"
    /\ MergeRequests[2].answer = "CONFLICT"
    /\ merge_result = Some(ClientErr("CONFLICT"))
    /\ pc = "main_match" /\ result = ClientErr("CONFLICT")

NoMethodAllowed == as_generic("No merge method allowed")

\* C25: when every request is rejected with method-not-allowed, merge() fails
\* with "No merge method allowed" after three requests, one for each method,
\* all for the snapshot's head sha; it fails so in no other case.
C25_AllRejected ==
    Merged =>
        LET rejected == \A k \in 1..Len(MergeRequests) :
                            MergeRequests[k].answer = "METHOD_NOT_ALLOWED"
        IN  /\ rejected <=> merge_result = Some(NoMethodAllowed)
            /\ rejected =>
                /\ Len(MergeRequests) = 3
                /\ {MergeRequests[k].arg : k \in 1..3} = MergeMethod
                /\ \A k \in 1..3 : MergeRequests[k].sha = pull_request.sha

C25_Witness ==
    /\ Merged
    /\ pc = "main_match"
    /\ result = NoMethodAllowed
    /\ Len(MergeRequests) = 3
    /\ \A k \in 1..3 : MergeRequests[k].answer = "METHOD_NOT_ALLOWED"

\* C29: the dry-run merger's merge() succeeds and sends no merge request.
C29_DryRun ==
    merger.kind = "Dummy" =>
        /\ MergeRequests = <<>>
        /\ IsSome(merge_result) => merge_result = Some(Ok("()"))

C29_Witness ==
    /\ merger.kind = "Dummy"
    /\ pc = "main_match"
    /\ merge_result = Some(Ok("()"))
    /\ result = Ok("Done")
    /\ AllPassed

\* The list `methods` without the method m
Without(methods, m) ==
    LET Other(x) == x # m
    IN  SelectSeq(methods, Other)

\* C23: the merger's list has each of the three methods once, the configured
\* default first, and the other two in the order one fixed list of the three
\* methods has them, the same list for every default.
C23_MergeMethods ==
    /\ \A default_method \in MergeMethod :
        merger = DefaultPullRequestMerger_new(default_method) =>
            /\ Len(merger.merge_methods) = 3
            /\ Range(merger.merge_methods) = MergeMethod
            /\ merger.merge_methods[1] = default_method
    /\ \E fallback \in Perms(MergeMethod) :
        \A default_method \in MergeMethod :
            Tail(build_merge_methods(default_method)) = Without(fallback, default_method)

C23_Witness ==
    /\ merger = DefaultPullRequestMerger_new("Rebase")
    /\ merger.merge_methods = <<"Rebase", "Merge", "Squash">>
    /\ Merged
    /\ MergeRequests # <<>>
    /\ MergeRequests[1].arg = "Rebase"

\* The run is over for a snapshot that is open, no draft and Clean, the reviews
\* step, where the pipeline has it, found the approvals needed, and GitHub
\* accepts the merger's first method
CleanAndApproved ==
    /\ pc = "main_match"
    /\ IsSome(context)
    /\ pull_request.state = "Open"
    /\ ~pull_request.draft
    /\ pull_request.mergeable_state = "Clean"
    /\ merger.kind = "Default"
    /\ \A i \in EntriesOf("CheckReviewsStep") : executed[i].status = Passed
    /\ \A k \in 1..Len(MergeRequests) :
            MergeRequests[k].arg = merger.merge_methods[1] => MergeRequests[k].answer = "ok"

\* C27: such a run returns Done after one merge request, with the default
\* method and the snapshot's head sha, and sends no update-branch and no
\* re-run request.
C27_CleanRunMerges ==
    CleanAndApproved =>
        /\ result = Ok("Done")
        /\ AllPassed
        /\ Len(MergeRequests) = 1
        /\ MergeRequests[1].arg = merger.merge_methods[1]
        /\ MergeRequests[1].sha = pull_request.sha
        /\ RequestsTo("update_branch") = {}
        /\ \A op \in RerunRequests : RequestsTo(op) = {}

C27_Witness ==
    /\ CleanAndApproved
    /\ merger = DefaultPullRequestMerger_new("Squash")
    /\ "CheckReviewsStep" \in Range(steps)
    /\ Len(MergeRequests) = 1
    /\ MergeRequests[1].arg = "Squash"
    /\ result = Ok("Done")

\* A Blocked snapshot's run is over, the runner re-triggered the failed jobs
\* and the action runs, none of them failed, were listed
RetriggeredOnly ==
    /\ pc = "main_match"
    /\ IsSome(context)
    /\ pull_request.mergeable_state = "Blocked"
    /\ RunnerTriggered
    /\ \E j \in RequestsTo("action_runs") : requests[j].answer = "ok"
    /\ RequestsTo("rerun_workflow") = {}

C28_State ==
    RetriggeredOnly =>
        /\ result = Ok("Pending")
        /\ executed[Len(executed)] = [step |-> "CheckBuildFailed", status |-> Waiting]
        /\ merge_result = None
        /\ MergeRequests = <<>>

C28_Step ==
    [][(/\ pc = "check_statuses"
        /\ Unwrap(summaries).pending = <<>>
        /\ Len(Unwrap(summaries).failed) = 1
        /\ Unwrap(summaries).failed[1].name \notin DOMAIN status_failures_config)
            => LET new == SubSeq(requests', Len(requests) + 1, Len(requests'))
                   reruns == {j \in 1..Len(new) : new[j].op = "circleci_rerun_workflow"}
               IN  /\ status_failures' = status_failures
                   /\ (\E j \in 1..Len(new) : /\ new[j].op = "process_failed_jobs"
                                              /\ new[j].answer = "Triggered")
                        => /\ Cardinality(reruns) = 1
                           /\ pc' = "check_actions"
                           /\ statuses_result' = Some(Waiting)]_vars

\* C28: a Blocked snapshot with one failed status that has no threshold and
\* nothing pending, whose job the configured runner re-triggers: one re-run
\* request is sent, no failure counter is created, and with no failed action
\* run the run returns the waiting state without a merge.
C28_RetriggerWaits == []C28_State /\ C28_Step

C28_Witness ==
    /\ RetriggeredOnly
    /\ status_failures_config # <<>>
    /\ status_failures = <<>>
    /\ Cardinality(RequestsTo("circleci_rerun_workflow")) = 1
    /\ result = Ok("Pending")

\* C26: process_failed_jobs asks CircleCI only about its own job URLs and lets
\* URLs of other domains pass without error; when it returns a status it has
\* sent one re-run request for every workflow the failed jobs belong to, and
\* the status is Triggered when there is such a request, Success (no action)
\* when there is none.
C26_RunnerReruns ==
    pc = "process_failed_jobs_returned" =>
        LET job_urls == Unwrap(input).job_urls
            out == Unwrap(output)
            recognized == {job_urls[i] : i \in 1..Len(job_urls)} \cap JobUrls
            workflows == {out.job_info[IF url = "circleci_job1" THEN 1 ELSE 2] :
                            url \in recognized}
            reruns == RequestsTo("circleci_rerun_workflow")
        IN  /\ \A j \in RequestsTo("job_info") : requests[j].arg \in recognized
            /\ (\A i \in 1..Len(job_urls) : job_urls[i] = "other") =>
                    out.result = Ok("Success") /\ requests = <<>>
            /\ IsErr(out.result) =>
                    \/ \E i \in 1..Len(job_urls) : job_urls[i] = "circleci_bad"
                    \/ \E j \in 1..Len(requests) : requests[j].answer # "ok"
            /\ IsOk(out.result) =>
                    /\ {requests[j].arg : j \in RequestsTo("job_info")} = recognized
                    /\ {requests[j].arg : j \in reruns} = workflows
                    /\ Cardinality(reruns) = Cardinality(workflows)
                    /\ \A j \in reruns : requests[j].answer = "ok"
                    /\ out.result = IF reruns # {} THEN Ok("Triggered") ELSE Ok("Success")

C26_Witness ==
    /\ pc = "process_failed_jobs_returned"
    /\ Unwrap(input).job_urls = <<"circleci_job1", "other", "circleci_job2">>
    /\ Unwrap(output).job_info = [j \in Jobs |-> "w2"]
    /\ Unwrap(output).result = Ok("Triggered")
    /\ Cardinality(RequestsTo("circleci_rerun_workflow")) = 1
    /\ Cardinality(RequestsTo("job_info")) = 2

\* The value of the entry (owner, matcher) of the map
Stored(owner, matcher) == Unwrap(repo_map).entries[[owner |-> owner, repo |-> matcher]]
Has(owner, matcher) == [owner |-> owner, repo |-> matcher] \in DOMAIN Unwrap(repo_map).entries

C30_Get ==
    (IsSome(output) /\ IsSome(repo_map) /\ Unwrap(output).op = "get") =>
        LET got == Unwrap(output)
        IN  got.value =
                IF Has(got.owner, Specific(got.repo)) THEN Stored(got.owner, Specific(got.repo))
                ELSE IF Has(got.owner, Wildcard) THEN Stored(got.owner, Wildcard)
                ELSE Unwrap(repo_map).default

C30_Insert ==
    [][(IsSome(output') /\ IsSome(repo_map) /\ Unwrap(output').op = "insert") =>
            LET put == Unwrap(output')
                old == Unwrap(repo_map)
                new == Unwrap(repo_map')
            IN  IF put.repo \in DOMAIN old.entries
                THEN IsErr(put.result) /\ new = old
                ELSE /\ put.result = Ok("()")
                     /\ new.default = old.default
                     /\ DOMAIN new.entries = DOMAIN old.entries \cup {put.repo}
                     /\ new.entries[put.repo] = put.value
                     /\ \A k \in DOMAIN old.entries : new.entries[k] = old.entries[k]]_vars

\* C30: get answers the value of the exact owner/repo entry, else the value
\* of that owner's wildcard entry, else the default; an insert adds its entry
\* and changes no other, and the insert of a key already there fails and
\* leaves the map as it was.
C30_RepoMap == []C30_Get /\ C30_Insert

C30_Witness ==
    /\ IsSome(repo_map)
    /\ IsSome(output)
    /\ Has("owner", Wildcard) /\ Stored("owner", Wildcard) = 1
    /\ Has("other", Wildcard) /\ Stored("other", Wildcard) = 2
    /\ Has("other", Specific("override")) /\ Stored("other", Specific("override")) = 1
    /\ Unwrap(output) = [op |-> "get", owner |-> "other", repo |-> "repo", value |-> 2]

-----------------------------------------------------------------------------
\* C31: each failure counter is a consecutive-failure count: under an unchanged
\* head sha it equals the number of most recent polls in a row on which the
\* status was observed failed, so a poll that observes it not failed between
\* two failures starts the count over.
C31_ConsecutiveCount ==
    IsSome(history) =>
        \A name \in DOMAIN status_failures :
            status_failures[name] = Unwrap(history).streak

\* The counter of `name` in the counters `failures`, 0 when it has none
CounterOf(failures, name) == IF name \in DOMAIN failures THEN failures[name] ELSE 0

\* The current statuses check_statuses worked on in the returned call
Fetched == fetch_status_summaries(Unwrap(input).statuses, Unwrap(output).order)

FailedNames == {Fetched.failed[i].name : i \in 1..Len(Fetched.failed)}

\* C32: on a poll with failed statuses and none pending, the counter of every
\* failed status with a configured threshold goes up by exactly one, and no
\* counter is created or changed for a failed status without a threshold.
C32_EveryThresholdedCounted ==
    (/\ pc = "check_statuses_returned"
     /\ IsOk(Fetched.result)
     /\ Fetched.pending = <<>>
     /\ Fetched.failed # <<>>) =>
        \A name \in FailedNames :
            IF name \in DOMAIN status_failures_config
            THEN CounterOf(status_failures, name)
                     = CounterOf(Unwrap(input).failures, name) + 1
            ELSE /\ name \in DOMAIN status_failures <=> name \in DOMAIN Unwrap(input).failures
                 /\ CounterOf(status_failures, name)
                        = CounterOf(Unwrap(input).failures, name)

\* The reviews of `list` that are neither Commented nor Pending, in list order
WithoutComments(list) ==
    LET Counts(review) == review.state \notin {"Commented", "Pending"}
    IN  SelectSeq(list, Counts)

\* C33: Commented and Pending reviews never change the approval count: the
\* count of a review list is the count of the list with all such reviews
\* removed, so lists that differ only in such reviews, wherever they stand,
\* have the same count, and a reviewer who approved and then only commented
\* still counts.
C33_CommentsIgnored ==
    pc = "computed" =>
        /\ approvals = Some(Cardinality(users_approved_after(WithoutComments(reviews), {})))
        /\ \A u \in Users :
            (/\ \E i \in 1..Len(reviews) :
                    reviews[i].user = u /\ reviews[i].state = "Approved"
             /\ \A i \in 1..Len(reviews) :
                    reviews[i].user = u => reviews[i].state \in {"Approved", "Commented",
                                                                 "Pending"})
                => u \in ApprovingReviewers(reviews)

C33_Witness ==
    /\ pc = "computed"
    /\ reviews = <<[user |-> "bob", state |-> "Approved"],
                   [user |-> "mike", state |-> "Pending"],
                   [user |-> "bob", state |-> "Commented"]>>
    /\ approvals = Some(1)

-----------------------------------------------------------------------------
\* The merge request bodies the merger builds from a snapshot's title, body
\* and head sha.

Titles == {"title1", "title2"}
Bodies == {None, Some("body1"), Some("body2")}

\* Mutant: every method's commit message is the pull request's body
build_merge_message_Always(pr, method) == pr.body

\* build_merge_message: the body for a squash, nothing otherwise
build_merge_message(pr, method) ==
    IF method = "Squash" THEN pr.body ELSE None

\* merge_with_method's MergeRequestBody
merge_with_method(pr, method) ==
    [sha |-> pr.sha,
     commit_title |-> pr.title,
     commit_message |-> build_merge_message(pr, method),
     merge_method |-> method]

InitMerger ==
    /\ steps = main_build_steps(TRUE)
    /\ merger \in {DummyPullRequestMerger}
                    \cup {DefaultPullRequestMerger_new(m) : m \in MergeMethod}
    /\ reviews_config = default_reviews_config
    /\ status_failures_config = <<>>
    /\ workflow_runners = <<>>
    /\ pc = "merger_merge"
    /\ idx = 0
    /\ context = None
    /\ result = NoResult
    /\ executed = <<>>
    /\ requests = <<>>
    /\ review_locals = None
    /\ merge_result = None
    /\ last_head_hash = None
    /\ status_failures = <<>>
    /\ summaries = None
    /\ statuses_result = None
    /\ reviews = <<>>
    /\ approvals = None
    /\ \E pr \in [title : Titles, body : Bodies, sha : Shas] :
            input = Some([pull_request |-> pr])
    /\ output = None
    /\ history = None
    /\ repo_map = None

\* merge() on the snapshot: the requests sent and the body built for each
merger_merge_call ==
    /\ pc = "merger_merge"
    /\ IsSome(input)
    /\ \E answers \in MergeAnswers(merger.merge_methods) :
       \E merged \in {PullRequestMerger_merge(merger, answers,
                                              Unwrap(input).pull_request.sha)} :
            /\ requests' = merged.requests
            /\ output' = Some([result |-> merged.result,
                               bodies |-> [i \in 1..Len(merged.requests) |->
                                            merge_with_method(Unwrap(input).pull_request,
                                                              merged.requests[i].arg)]])
    /\ pc' = "merger_merge_returned"
    /\ UNCHANGED <<config, build_failed, idx, context, result, executed,
                   review_locals, merge_result, reviews, approvals, input, history, repo_map>>

NextMerger == merger_merge_call

SpecMerger == InitMerger /\ [][NextMerger]_vars

\* C34: every merge request the merger builds carries the head sha and the
\* title of the snapshot given to merge(); its commit message is the pull
\* request's body for the squash method and absent for merge and rebase.
C34_MergeRequestBody ==
    pc = "merger_merge_returned" =>
        LET pr == Unwrap(input).pull_request
            bodies == Unwrap(output).bodies
        IN  /\ Len(bodies) = Len(requests)
            /\ \A i \in 1..Len(bodies) :
                /\ requests[i].op = "merge_pull_request"
                /\ requests[i].sha = pr.sha
                /\ bodies[i].merge_method = requests[i].arg
                /\ bodies[i].sha = pr.sha
                /\ bodies[i].commit_title = pr.title
                /\ bodies[i].commit_message =
                        (IF bodies[i].merge_method = "Squash" THEN pr.body ELSE None)

C34_Witness ==
    /\ pc = "merger_merge_returned"
    /\ Unwrap(input).pull_request = [title |-> "title2", body |-> Some("body1"),
                                     sha |-> "sha2"]
    /\ Unwrap(output).result = Ok("()")
    /\ Unwrap(output).bodies =
            <<[sha |-> "sha2", commit_title |-> "title2", commit_message |-> None,
               merge_method |-> "Merge"],
              [sha |-> "sha2", commit_title |-> "title2", commit_message |-> Some("body1"),
               merge_method |-> "Squash"]>>

-----------------------------------------------------------------------------
\* A snapshot that must not be merged: closed, a draft, or of a mergeable state
\* Dirty, Behind or Blocked
Barred(pr) ==
    \/ pr.state = "Closed"
    \/ pr.draft
    \/ pr.mergeable_state \in {"Dirty", "Behind", "Blocked"}

\* C35: no merge request is ever submitted for a snapshot that is closed, a
\* draft, or Dirty, Behind or Blocked: the merger is not reached, and the run
\* ends on a step that answered Waiting or an error, in every run of the
\* poll loop.
C35_BarredNeverMerged ==
    (IsSome(context) /\ Barred(pull_request)) =>
        /\ MergeRequests = <<>>
        /\ pc # "merge"
        /\ merge_result = None
        /\ Len(executed) = Len(steps) => executed[Len(executed)].status # Passed
        /\ pc = "main_match" =>
            /\ executed # <<>>
            /\ \/ IsErr(executed[Len(executed)].status)
               \/ executed[Len(executed)].status = Waiting
            /\ result \in {Ok("Pending"), executed[Len(executed)].status}

C35_Witness ==
    /\ pc = "main_match"
    /\ steps = Director_build_steps
    /\ merger.kind = "Default"
    /\ IsSome(context)
    /\ pull_request.mergeable_state = "Behind"
    /\ pull_request.sha = "sha2"
    /\ last_head_hash = Some("sha1")
    /\ \E i \in EntriesOf("CheckReviewsStep") : executed[i].status = Passed
    /\ executed[Len(executed)] = [step |-> "CheckBehindMaster", status |-> Waiting]
    /\ result = Ok("Pending")

-----------------------------------------------------------------------------
\* C36: CheckBuildFailed executed on a snapshot that is not Blocked leaves the
\* failure counters and the last seen head sha as they were, also when the
\* snapshot's head differs from the last seen one; the two fields change only
\* inside an execute that evaluates a Blocked snapshot.
C36_OnlyBlockedTouchesCounters ==
    [][/\ (AtStep("CheckBuildFailed") /\ pull_request.mergeable_state # "Blocked") =>
            /\ last_head_hash' = last_head_hash
            /\ status_failures' = status_failures
       /\ (last_head_hash' # last_head_hash \/ status_failures' # status_failures) =>
            /\ AtStep("CheckBuildFailed") \/ pc = "check_statuses"
            /\ IsSome(context)
            /\ pull_request.mergeable_state = "Blocked"]_vars

C36_Witness ==
    /\ pc = "merge"
    /\ IsSome(context)
    /\ executed[Len(executed)] = [step |-> "CheckBuildFailed", status |-> Passed]
    /\ pull_request.mergeable_state = "Clean"
    /\ pull_request.sha = "sha2"
    /\ last_head_hash = Some("sha1")
    /\ status_failures = [c \in {"a"} |-> 1]

-----------------------------------------------------------------------------
\* C37: under the poll loop, which stops at the first error, the counter of a
\* status with max_failures N never exceeds N, and under one head sha the
\* workflow runners are asked on at most N - 1 polls that found the status
\* failed: the re-runs of a persistently failing status are bounded.
C37_RerunsBounded ==
    /\ \A name \in DOMAIN status_failures :
            /\ name \in DOMAIN status_failures_config
            /\ status_failures[name] <= status_failures_config[name]
            /\ status_failures[name] = status_failures_config[name] =>
                    pc \in {"main_match", "exit"} /\ result = MaxFailuresError
    /\ IsSome(history) =>
            /\ Unwrap(history).invoked <= status_failures_config["a"] - 1
            /\ Unwrap(history).invoked <= CounterOf(status_failures, "a")
                \/ last_head_hash # Some(Unwrap(history).streak_sha)
    /\ pc = "exit" => IsErr(result) \/ result = Ok("Done")

C37_Witness ==
    /\ pc = "exit"
    /\ result = MaxFailuresError
    /\ status_failures_config = [c \in {"a"} |-> 2]
    /\ status_failures = [c \in {"a"} |-> 2]
    /\ IsSome(history)
    /\ Unwrap(history).invoked = 1
    /\ Unwrap(history).streak = 2

-----------------------------------------------------------------------------
\* C38: on a poll in which a current status is pending, the status sub-check
\* answers Waiting, raises no failure counter and asks no workflow runner,
\* also when other statuses are failed.
C38_PendingOnlyWaits ==
    (/\ pc = "check_statuses_returned"
     /\ IsOk(Fetched.result)
     /\ Fetched.pending # <<>>) =>
        /\ Unwrap(output).result = Waiting
        /\ status_failures = Unwrap(input).failures
        /\ requests = <<>>

C38_Witness ==
    /\ pc = "check_statuses_returned"
    /\ status_failures_config = [c \in Contexts |-> MaxThreshold]
    /\ Unwrap(input).failures = [c \in {"a"} |-> 1]
    /\ Fetched.pending = <<[name |-> "b", url |-> "other"]>>
    /\ Fetched.failed = <<[name |-> "a", url |-> "circleci_job1"]>>
    /\ Unwrap(output).result = Waiting
    /\ status_failures = [c \in {"a"} |-> 1]

-----------------------------------------------------------------------------
\* C39: the review check runs before the behind-base check and the
\* build-health check, so within a run an update-branch request or a CI re-run
\* request is only issued once the review check found the approvals sufficient.
C39_ReviewsBeforeRequests ==
    (\E k \in 1..Len(steps) : steps[k] = "CheckReviewsStep") =>
        /\ \A k \in 1..Len(executed) :
                executed[k].step \in {"CheckBehindMaster", "CheckBuildFailed"} =>
                    \E r \in 1..(k - 1) : executed[r].step = "CheckReviewsStep"
        /\ \A j \in 1..Len(requests) :
                requests[j].op \in {"update_branch"} \cup RerunRequests =>
                    \E i \in EntriesOf("CheckReviewsStep") : executed[i].status = Passed

-----------------------------------------------------------------------------
\* C40: process_failed_jobs issues a re-run request only after every job URL
\* was parsed and every job-info lookup succeeded: when a recognized URL is
\* malformed or a lookup fails it returns an error and has issued no re-run.
C40_RerunsAfterAllLookups ==
    pc = "process_failed_jobs_returned" =>
        LET job_urls == Unwrap(input).job_urls
            job_info == Unwrap(output).job_info
            lookups == {k \in 1..Len(job_urls) : job_urls[k] \in JobUrls}
            reruns == RequestsTo("circleci_rerun_workflow")
            malformed == \E k \in 1..Len(job_urls) : IsErr(parse_job_url(job_urls[k]))
            failed_lookup == \E k \in lookups : job_info[job_id(job_urls[k])] = "error"
        IN  /\ (malformed \/ failed_lookup) =>
                /\ IsErr(Unwrap(output).result)
                /\ reruns = {}
            /\ reruns # {} =>
                /\ Cardinality(RequestsTo("job_info")) = Cardinality(lookups)
                /\ \A j \in RequestsTo("job_info") : requests[j].answer = "ok"
                /\ \A i \in reruns : \A j \in RequestsTo("job_info") : j < i

C40_Witness ==
    /\ pc = "process_failed_jobs_returned"
    /\ Unwrap(input).job_urls = <<"circleci_job1", "circleci_job2", "circleci_bad">>
    /\ Unwrap(output).job_info = [j \in Jobs |-> IF j = 1 THEN "w1" ELSE "w2"]
    /\ IsErr(Unwrap(output).result)
    /\ Cardinality(RequestsTo("job_info")) = 2
    /\ RequestsTo("circleci_rerun_workflow") = {}

====
